---- MODULE Spec2Model ----
(***************************************************************************)
(* Model of the tree-pickup clustering core (src/src/tree_pickup).         *)
(*                                                                         *)
(* Geometry.  Every address lies on the meridian of longitude -122.0; a    *)
(* latitude is 47 degrees plus a whole number of units of 1/8 degree, so   *)
(* a Coordinate is the rational num/den of such units (den = 1 for an      *)
(* address, den = group size for a centroid).  On a meridian the haversine *)
(* formula reduces to R * |lat1 - lat2| (in radians), so a distance is     *)
(* the rational |lat1 - lat2| in units (one unit is R*pi/1440 km, about    *)
(* 13.9 km).  The code compares float distances: a centroid's latitude is  *)
(* a rounded float quotient, and a distance carries that rounding, which   *)
(* decides between two distances that are equal as rationals.              *)
(*                                                                         *)
(* K-Means (sklearn) is an external library: its labels are drawn          *)
(* nondeterministically, once per request and seed, from the labellings a  *)
(* converged fit can end in (every sample with the first nearest cluster   *)
(* mean).                                                                  *)
(***************************************************************************)
EXTENDS Integers, Sequences, FiniteSets, TLC

\* ------------------------------------------------------------------ bounds
MaxAddresses == 4
MaxTeams == 3
MaxTrees == 3
MaxList == 4
MaxCount == 20
MaxCapacity == 8
MaxGeocode == 3
MaxLive == 3

\* ------------------------------------------------------- program constants
max_iterations == 1000
R == 6371

TEAM_COLORS ==
  << "red", "green", "blue", "yellow", "cyan", "magenta",
     "bright_red", "bright_green", "bright_blue", "bright_yellow",
     "bright_cyan", "bright_magenta" >>

VARIABLES
  req,                \* the arguments of cluster_addresses
  pc,                 \* position of the request inside cluster_addresses
  labels,             \* result of kmeans.fit_predict, <<>> before it ran
  team_assignments,   \* dict team index -> list of addresses (indices into req.addresses)
  iteration_count,    \* local of _redistribute_addresses
  console,            \* messages printed with console.print
  error,              \* "" or the reason the request was aborted
  exit_code,          \* -1, or the argument of sys.exit
  centroids,          \* cluster_addresses' centroids dict
  color_assignments,  \* dict team index -> color
  result,             \* <<>> or <<the returned ClusterResult>>
  other,              \* a second request with the same arguments but for the seed (SpecRepro)
  fits,               \* dict random_state -> the labels KMeans.fit_predict gave
  call,               \* a pending call of a function on its own (SpecFn, SpecGeo)
  ret,                \* what that call gave
  cache_file,         \* content of the geocode cache file
  cache,              \* geocode_addresses' cache dict
  coordinates,        \* geocode_addresses' result list
  failed_addresses,   \* geocode_addresses' list of (idx, address, error)
  addresses_to_geocode, \* geocode_addresses' list of (idx, address, normalized)
  loop_idx,           \* position in addresses_to_geocode
  events              \* requests to Nominatim and their outcomes, sleeps, cache write, exit

geo_vars == << cache_file, cache, coordinates, failed_addresses,
               addresses_to_geocode, loop_idx, events >>

vars == << req, pc, labels, team_assignments, iteration_count, console, error,
           exit_code, centroids, color_assignments, result, other, fits, call, ret,
           cache_file, cache, coordinates, failed_addresses,
           addresses_to_geocode, loop_idx, events >>

\* ----------------------------------------------------------------- helpers
Abs(x) == IF x < 0 THEN -x ELSE x

Range(s) == { s[i] : i \in DOMAIN s }

\* Sum of f[i] for i in lo..hi, halving the range.
RECURSIVE SumRange(_, _, _)
SumRange(f, lo, hi) ==
  IF lo > hi THEN 0
  ELSE IF lo = hi THEN f[lo]
  ELSE LET mid == (lo + hi) \div 2
       IN SumRange(f, lo, mid) + SumRange(f, mid + 1, hi)

\* list.remove(x): drops the first element equal to x.
ListRemove(s, x) ==
  LET at == { k \in 1..Len(s) : s[k] = x }
      i == CHOOSE k \in at : \A j \in at : k <= j
  IN SubSeq(s, 1, i - 1) \o SubSeq(s, i + 1, Len(s))

\* ---------------------------------------------------------------- distance
\* Coordinates lie on the meridian of longitude -122.0: a coordinate num / den
\* is the latitude BaseLatitude + num / (8 * den) degrees, the region of the
\* repository's test data. Latitudes num / 1 are floats exactly.
BaseLatitude == 47

\* A distance is the float the code computes, written exactly: num / den units
\* of 1/8 degree plus ulp / den units of 2^-47 degree, the rounding that the
\* float quotients of the two latitudes carry into their difference.
Zero == [num |-> 0, den |-> 1, ulp |-> 0]
Inf == [num |-> 1, den |-> 0, ulp |-> 0]          \* float("inf")

\* 2^e modulo n, eleven factors at a time
RECURSIVE PowMod(_, _)
PowMod(e, n) ==
  IF e = 0 THEN 1 % n
  ELSE IF e >= 11 THEN (2048 * PowMod(e - 11, n)) % n
  ELSE (2 * PowMod(e - 1, n)) % n

\* the exponent of the power of two at or below n
RECURSIVE Log2(_)
Log2(n) == IF n < 2 THEN 0 ELSE 1 + Log2(n \div 2)

\* Floats of 53 bits from 2^Log2(BaseLatitude) up to its double are the
\* multiples of 2^(Log2(BaseLatitude) - 52) degree, 2^-47 for latitudes from 32
\* to 64: a latitude's part num * 2^MantissaShift / den rounds to nearest.
MantissaShift == 52 - Log2(BaseLatitude) - 3

\* den times the rounding error of the float quotient sum / len, in units of
\* 2^-47 degree
quotient_error(coord) ==
  IF coord.num % coord.den = 0 THEN 0
  ELSE LET r == ((coord.num % coord.den) * PowMod(MantissaShift, coord.den)) % coord.den
       IN IF 2 * r < coord.den THEN -r ELSE coord.den - r

\* comparison of two rationals num / den
RatLess(d1, d2) == d1.num * d2.den < d2.num * d1.den

\* distance < best_distance on floats: the exact distances decide, and between
\* exactly equal ones the rounding does
Less(d1, d2) ==
  LET a == d1.num * d2.den
      b == d2.num * d1.den
  IN \/ a < b
     \/ a = b /\ d1.ulp * d2.den < d2.ulp * d1.den

\* haversine_distance, on one meridian, in units of 1/8 degree: a function of
\* the float coord2.latitude - coord1.latitude, which is exact on the two
\* rounded latitudes.
haversine_distance(coord1, coord2) ==
  LET x == coord2.num * coord1.den - coord1.num * coord2.den
      u == quotient_error(coord2) * coord1.den - quotient_error(coord1) * coord2.den
  IN IF x = 0
     THEN Zero
     ELSE [num |-> Abs(x), den |-> coord1.den * coord2.den,
           ulp |-> IF x > 0 THEN u ELSE -u]

\* dist > threshold_km, with pi taken as 355/113: dist * R * pi / 1440 > threshold_km.
ExceedsKm(dist, threshold_km) ==
  R * 355 * dist.num > threshold_km * 113 * 1440 * dist.den

\* ------------------------------------------------------------------ models
None == [num |-> 0, den |-> 0]         \* Address.coordinate = None

\* Coordinate(latitude=BaseLatitude + latitude / 8, longitude=-122.0)
Coordinate(latitude) == [num |-> latitude, den |-> 1]

\* the address of that number at Coordinate(latitude)
Address(address_number, latitude) ==
  [address_number |-> address_number, coordinate |-> Coordinate(latitude)]

NoAddress == [address_number |-> 0, coordinate |-> None]   \* best_address = None
NoTeam == -1                                                \* best_target_team = None

Message(kind, arg) == [kind |-> kind, arg |-> arg]

\* ------------------------------------------------- _redistribute_addresses
\* mean latitude of a non-empty list of addresses
Centroid(addrs) ==
  [num |-> SumRange([i \in 1..Len(addrs) |-> addrs[i].coordinate.num], 1, Len(addrs)),
   den |-> Len(addrs)]

\* team_centroids where a team without addresses has the origin as centroid
team_centroids_default(ta) ==
  [i \in DOMAIN ta |-> IF Len(ta[i]) > 0 THEN Centroid(ta[i]) ELSE [num |-> 0, den |-> 1]]

\* centroids of the non-empty teams
team_centroids(ta) ==
  [i \in { t \in DOMAIN ta : Len(ta[t]) > 0 } |-> Centroid(ta[i])]

\* overloaded with >= for >
overloaded_inclusive(ta, max_trees) == { i \in DOMAIN ta : Len(ta[i]) >= max_trees }

overloaded(ta, max_trees) == { i \in DOMAIN ta : Len(ta[i]) > max_trees }

\* all_at_capacity with > for >=
all_at_capacity_strict(ta, max_trees) == \A i \in DOMAIN ta : Len(ta[i]) > max_trees

all_at_capacity(ta, max_trees) == \A i \in DOMAIN ta : Len(ta[i]) >= max_trees

\* any_overloaded that tolerates one address too many
any_overloaded_lenient(ta, max_trees) == \E i \in DOMAIN ta : Len(ta[i]) > max_trees + 1

\* the while condition's any(...)
any_overloaded(ta, max_trees) == \E i \in DOMAIN ta : Len(ta[i]) > max_trees

\* max(overloaded_teams, key=size): the first team of maximal size
most_overloaded(ta, max_trees) ==
  CHOOSE i \in overloaded(ta, max_trees) :
    \A j \in overloaded(ta, max_trees) :
      \/ Len(ta[j]) < Len(ta[i])
      \/ Len(ta[j]) = Len(ta[i]) /\ i <= j

NoMove == [distance |-> Inf, address |-> NoAddress, target |-> NoTeam]

\* candidate_teams without the test of the target's size
candidate_teams_any(ta, src, max_trees) ==
  SelectSeq([k \in 1..Cardinality(DOMAIN ta) |-> k - 1], LAMBDA t : t # src)

\* candidate_teams with <= for < in the test of the target's size
candidate_teams_full(ta, src, max_trees) ==
  SelectSeq([k \in 1..Cardinality(DOMAIN ta) |-> k - 1],
            LAMBDA t : t # src /\ Len(ta[t]) <= max_trees)

\* the teams that pass the test of line 193 during one scan, in dict order
candidate_teams(ta, src, max_trees) ==
  SelectSeq([k \in 1..Cardinality(DOMAIN ta) |-> k - 1],
            LAMBDA t : t # src /\ Len(ta[t]) < max_trees)

\* lines 194-202, for one address and one team that passed the test of line 193
try_target(cents, address, target_team, best) ==
  LET distance == IF target_team \in DOMAIN cents
                  THEN haversine_distance(address.coordinate, cents[target_team])
                  ELSE Zero
  IN IF Less(distance, best.distance)
     THEN [distance |-> distance, address |-> address, target |-> target_team]
     ELSE best

\* for target_team in team_assignments, from the k-th candidate on
RECURSIVE ScanTargets(_, _, _, _, _)
ScanTargets(cents, candidates, address, k, best) ==
  IF k > Len(candidates) THEN best
  ELSE ScanTargets(cents, candidates, address, k + 1,
                   try_target(cents, address, candidates[k], best))

\* keeps the earlier of two scan results unless the later is strictly nearer,
\* as the comparison distance < best_distance does
first_nearest(earlier, later) ==
  IF Less(later.distance, earlier.distance) THEN later ELSE earlier

\* for address in team_assignments[most_overloaded], positions lo..hi in order;
\* the range is halved, which gives the scan's result: the first pair of least distance
RECURSIVE ScanAddresses(_, _, _, _, _)
ScanAddresses(cents, candidates, addrs, lo, hi) ==
  IF lo > hi THEN NoMove
  ELSE IF lo = hi
  THEN ScanTargets(cents, candidates, addrs[lo], 1, NoMove)
  ELSE LET mid == (lo + hi) \div 2
       IN first_nearest(ScanAddresses(cents, candidates, addrs, lo, mid),
                        ScanAddresses(cents, candidates, addrs, mid + 1, hi))

\* best_distance, best_address, best_target_team after the two for loops
best_move(ta, max_trees) ==
  LET src == most_overloaded(ta, max_trees)
  IN ScanAddresses(team_centroids(ta), candidate_teams(ta, src, max_trees),
                   ta[src], 1, Len(ta[src]))

\* a scan whose order of iteration is not fixed: it may end with the first or
\* with the last of the nearest pairs
repair_moves_any_order(ta, max_trees) ==
  LET src == most_overloaded(ta, max_trees)
      cents == team_centroids(ta)
      pairs == { [distance |-> IF t \in DOMAIN cents
                               THEN haversine_distance(a.coordinate, cents[t])
                               ELSE Zero,
                  address |-> a, target |-> t] :
                   a \in Range(ta[src]), t \in Range(candidate_teams(ta, src, max_trees)) }
      nearest == { p \in pairs : \A q \in pairs : ~Less(q.distance, p.distance) }
  IN IF pairs = {} THEN { NoMove }
     ELSE { best_move(ta, max_trees),
            CHOOSE p \in nearest : \A q \in nearest :
              \/ q.address.address_number < p.address.address_number
              \/ q.address.address_number = p.address.address_number /\ q.target <= p.target }

\* the moves one repair iteration can make
repair_moves(ta, max_trees) == { best_move(ta, max_trees) }

\* apply_move without the removal from the source
apply_move_keep(ta, src, mv) ==
  [ta EXCEPT ![mv.target] = Append(@, mv.address)]

\* remove from the source, append to the target
apply_move(ta, src, mv) ==
  [ta EXCEPT ![src] = ListRemove(@, mv.address),
             ![mv.target] = Append(@, mv.address)]

\* --------------------------------------------------------------------- mst
\* distance_matrix[i, j]; the addresses' coordinates are whole units
distance_matrix(addresses) ==
  [i \in 1..Len(addresses) |->
    [j \in 1..Len(addresses) |->
      IF i = j THEN 0
      ELSE haversine_distance(addresses[i].coordinate, addresses[j].coordinate).num]]

\* Kruskal's algorithm over the given edges
RECURSIVE Kruskal(_, _, _, _)
Kruskal(matrix, comp, edges, total) ==
  IF edges = {} THEN total
  ELSE LET e == CHOOSE x \in edges :
                  \A y \in edges : matrix[x[1]][x[2]] <= matrix[y[1]][y[2]]
       IN IF comp[e[1]] = comp[e[2]]
          THEN Kruskal(matrix, comp, edges \ {e}, total)
          ELSE Kruskal(matrix,
                       [k \in DOMAIN comp |-> IF comp[k] = comp[e[2]] THEN comp[e[1]] ELSE comp[k]],
                       edges \ {e}, total + matrix[e[1]][e[2]])

\* scipy.sparse.csgraph.minimum_spanning_tree(dense matrix).sum(): an entry 0 of
\* a dense matrix is no edge, so the tree spans the graph of the non-zero entries
minimum_spanning_tree_sum(matrix) ==
  LET n == Len(matrix)
      edges == { e \in (1..n) \X (1..n) : e[1] < e[2] /\ matrix[e[1]][e[2]] # 0 }
  IN Kruskal(matrix, [k \in 1..n |-> k], edges, 0)

Returned(value) == [raised |-> FALSE, value |-> value]
Raised == [raised |-> TRUE, value |-> 0]
\* sys.exit(code)
SystemExit(code) == [raised |-> TRUE, value |-> code]

calculate_mst_distance(addresses) ==
  IF Len(addresses) <= 1 THEN Returned(0)
  ELSE IF \E i \in 1..Len(addresses) : addresses[i].coordinate = None THEN Raised
  ELSE IF Len(addresses) = 2
  THEN Returned(haversine_distance(addresses[1].coordinate, addresses[2].coordinate).num)
  ELSE Returned(minimum_spanning_tree_sum(distance_matrix(addresses)))

\* -------------------------------------------------------------- validators
\* detect_outliers with >= for > in the test of a pair
detect_outliers_inclusive(addresses, threshold_km) ==
  IF Len(addresses) <= 1 THEN << >>
  ELSE IF \E i \in 1..Len(addresses) : \E j \in (i + 1)..Len(addresses) :
            LET dist == haversine_distance(addresses[i].coordinate, addresses[j].coordinate)
            IN R * 355 * dist.num >= threshold_km * 113 * 1440 * dist.den
  THEN << Message("outliers", 10) >>
  ELSE << >>

\* the warning names 10 miles whatever the threshold is
detect_outliers(addresses, threshold_km) ==
  IF Len(addresses) <= 1 THEN << >>
  ELSE IF \E i \in 1..Len(addresses) : \E j \in (i + 1)..Len(addresses) :
            ExceedsKm(haversine_distance(addresses[i].coordinate, addresses[j].coordinate),
                      threshold_km)
  THEN << Message("outliers", 10) >>
  ELSE << >>

\* validate_team_count with >= for > in the second test
validate_team_count_inclusive(num_addresses, num_teams) ==
  IF num_teams < 1 THEN SystemExit(1)
  ELSE IF num_teams >= num_addresses THEN SystemExit(1)
  ELSE Returned(0)

validate_team_count(num_addresses, num_teams) ==
  IF num_teams < 1 THEN SystemExit(1)
  ELSE IF num_teams > num_addresses THEN SystemExit(1)
  ELSE Returned(0)

\* capacity_threshold with 1.6 for 0.8
capacity_threshold_loose(num_teams, max_trees) ==
  [num |-> (num_teams * max_trees) * 8, den |-> 5]

\* threshold = (num_teams * max_trees) * 0.8, as the exact fraction: the float
\* product is within one rounding of it and never crosses an integer
capacity_threshold(num_teams, max_trees) ==
  [num |-> (num_teams * max_trees) * 4, den |-> 5]

\* validate_capacity with > for >=
validate_capacity_strict(num_addresses, num_teams, max_trees) ==
  IF RatLess(capacity_threshold(num_teams, max_trees), [num |-> num_addresses, den |-> 1])
  THEN SystemExit(1)
  ELSE Returned(0)

validate_capacity(num_addresses, num_teams, max_trees) ==
  IF ~RatLess([num |-> num_addresses, den |-> 1], capacity_threshold(num_teams, max_trees))
  THEN SystemExit(1)
  ELSE Returned(0)

\* ------------------------------------------------ _assign_colors_optimally
NumColors == Len(TEAM_COLORS)

\* min over the teams already using a color of the distance between centroids
min_distance_to_color(cents, team_idx, existing) ==
  LET ds == { haversine_distance(cents[team_idx], cents[e]) : e \in existing \cap DOMAIN cents }
  IN IF ds = {} THEN Inf
     ELSE CHOOSE d \in ds : \A x \in ds : ~Less(x, d)

\* ScanColors where a later color with the same minimum distance wins
RECURSIVE ScanColorsLast(_, _, _, _, _)
ScanColorsLast(cents, team_idx, teams_by_color, c, best) ==
  IF c > NumColors THEN best
  ELSE LET m == min_distance_to_color(cents, team_idx, teams_by_color[c])
           b == IF ~Less(m, best.min_distance)
                THEN [color |-> c, min_distance |-> m]
                ELSE best
       IN ScanColorsLast(cents, team_idx, teams_by_color, c + 1, b)

\* for color in TEAM_COLORS, from color c on
RECURSIVE ScanColors(_, _, _, _, _)
ScanColors(cents, team_idx, teams_by_color, c, best) ==
  IF c > NumColors THEN best
  ELSE LET m == min_distance_to_color(cents, team_idx, teams_by_color[c])
           b == IF Less(best.min_distance, m)
                THEN [color |-> c, min_distance |-> m]
                ELSE best
       IN ScanColors(cents, team_idx, teams_by_color, c + 1, b)

\* for team_idx in range(len(TEAM_COLORS), num_teams)
RECURSIVE AssignRemaining(_, _, _, _, _)
AssignRemaining(num_teams, cents, team_idx, colors, teams_by_color) ==
  IF team_idx >= num_teams THEN colors
  ELSE IF team_idx \notin DOMAIN cents
  THEN AssignRemaining(num_teams, cents, team_idx + 1,
                       [colors EXCEPT ![team_idx] = TEAM_COLORS[(team_idx % NumColors) + 1]],
                       teams_by_color)
  ELSE LET best == ScanColors(cents, team_idx, teams_by_color, 1,
                              [color |-> 0, min_distance |-> [num |-> -1, den |-> 1, ulp |-> 0]])
       IN AssignRemaining(num_teams, cents, team_idx + 1,
                          [colors EXCEPT ![team_idx] = TEAM_COLORS[best.color]],
                          [teams_by_color EXCEPT ![best.color] = @ \cup {team_idx}])

\* assign_colors_optimally where only the teams that have addresses take the
\* colors in order
assign_colors_skip_empty(num_teams, cents) ==
  [i \in 0..(num_teams - 1) |->
     TEAM_COLORS[(Cardinality({ j \in 0..(i - 1) : j \in DOMAIN cents }) % NumColors) + 1]]

assign_colors_optimally(num_teams, cents) ==
  IF num_teams <= NumColors
  THEN [i \in 0..(num_teams - 1) |-> TEAM_COLORS[i + 1]]
  ELSE AssignRemaining(num_teams, cents, NumColors,
                       [i \in 0..(num_teams - 1) |->
                          IF i < NumColors THEN TEAM_COLORS[i + 1] ELSE ""],
                       [c \in 1..NumColors |-> {c - 1}])

\* ------------------------------------------------------- cluster_addresses
\* the warning appended when a team's MST distance is above 80 km
mst_warning(mst_distance) ==
  IF ExceedsKm([num |-> mst_distance, den |-> 1], 80)
  THEN << Message("mst_distance", mst_distance) >>
  ELSE << >>

\* make_team where the distance warning is given only to a team that has no
\* outlier warning
make_team_one_warning(name, cluster, color) ==
  LET mst_distance == calculate_mst_distance(cluster).value
  IN [name |-> name,
      addresses |-> cluster,
      mst_distance_km |-> mst_distance,
      warnings |-> IF detect_outliers(cluster, 16) # << >>
                   THEN detect_outliers(cluster, 16)
                   ELSE mst_warning(mst_distance),
      color |-> color]

\* one Team(...) of the final loop
make_team(name, cluster, color) ==
  LET mst_distance == calculate_mst_distance(cluster).value
  IN [name |-> name,
      addresses |-> cluster,
      mst_distance_km |-> mst_distance,
      warnings |-> detect_outliers(cluster, 16) \o mst_warning(mst_distance),
      color |-> color]

\* global_warnings with >= for >
global_warnings_inclusive(num_teams) ==
  IF num_teams >= NumColors THEN << Message("colors", num_teams) >> ELSE << >>

global_warnings(num_teams) ==
  IF num_teams > NumColors THEN << Message("colors", num_teams) >> ELSE << >>

\* team_assignments[label].append(addresses[idx]) for every idx in order
group_by_label(addresses, lab, num_teams) ==
  [i \in 0..(num_teams - 1) |->
     LET idxs == SelectSeq([idx \in 1..Len(addresses) |-> idx], LAMBDA idx : lab[idx] = i)
     IN [k \in 1..Len(idxs) |-> addresses[idxs[k]]]]

\* --------------------------------------------------------- initial states
Layouts ==
  { << 0, 0, 0, 0, 0, 0 >>,
    << 0, 1, 2, 3, 4, 5 >>,
    << 0, 6, 0, 6, 0, 6 >>,
    << 2, 0, 1, 5, 2, 7 >> }

AddressList(layout, n) == [i \in 1..n |-> Address(i, layout[i])]

TeamNames(n) == [i \in 1..n |-> 100 + i]

\* random_seed: int = 42, and the default of --seed
DefaultSeed == 42

\* random_state=None
Unseeded == -1

\* the arguments of cluster_addresses, random_seed left at its default
Request(addresses, num_teams, team_names, max_trees) ==
  [addresses |-> addresses, num_teams |-> num_teams,
   team_names |-> team_names, max_trees |-> max_trees, random_seed |-> DefaultSeed]

Requests ==
  { Request(AddressList(layout, n), k, TeamNames(k + extra), c) :
      layout \in Layouts, n \in 1..MaxAddresses, k \in 1..MaxTeams,
      extra \in {-1, 0, 1}, c \in 0..MaxTrees }

\* one address more on MaxTeams teams of one address each: two teams can be
\* too large by different amounts while a third has room
UnevenRequests ==
  { Request(AddressList(layout, MaxAddresses + 1), MaxTeams, TeamNames(MaxTeams), 1) :
      layout \in Layouts }

\* one team of seven addresses at two places less than 16 km apart
CrowdedLayout == << 0, 1, 0, 1, 0, 1, 0 >>

CrowdedRequests ==
  { Request(AddressList(CrowdedLayout, Len(CrowdedLayout)), 1, TeamNames(1),
            Len(CrowdedLayout)) }

\* requests with an address that was never geocoded, first or last in the list,
\* on fewer teams than addresses, as many, and more
UngeocodedRequests ==
  { Request([i \in 1..2 |-> IF i = at THEN [address_number |-> i, coordinate |-> None]
                                      ELSE Address(i, i)],
            k, TeamNames(k), 2) :
      at \in 1..2, k \in 1..MaxTeams }

NoCall == [fn |-> "", args |-> << >>]

\* as many teams as colors and more: 14 addresses at two places, eight at one
\* and six at the other, on 12, 13 or 14 teams of at most seven addresses
WideLayout == << 0, 0, 0, 0, 0, 0, 0, 0, 5, 5, 5, 5, 5, 5 >>

WideRequests ==
  { Request(AddressList(WideLayout, Len(WideLayout)), k, TeamNames(k), 7) :
      k \in { NumColors, NumColors + 1, NumColors + 2 } }

\* What a labelling of a converged K-Means fit satisfies: every sample has the
\* label of the first nearest cluster mean (argmin), so samples at one place
\* share a label, and as many labels are used as there are clusters or, if
\* fewer, distinct places.
kmeans_partition(addresses, lab, k) ==
  LET n == Len(addresses)
      lat(i) == addresses[i].coordinate.num
      used == { lab[i] : i \in 1..n }
      places == { lat(i) : i \in 1..n }
      size == [t \in used |-> Cardinality({ i \in 1..n : lab[i] = t })]
      total == [t \in used |->
                  SumRange([i \in 1..n |-> IF lab[i] = t THEN lat(i) ELSE 0], 1, n)]
      far(i, t) == Abs(lat(i) * size[t] - total[t])       \* size[t] times the distance
  IN /\ \A i \in 1..n : \A t \in used :
          /\ far(i, lab[i]) * size[t] <= far(i, t) * size[lab[i]]
          /\ t < lab[i] => far(i, lab[i]) * size[t] < far(i, t) * size[lab[i]]
     /\ Cardinality(used) =
          IF k < Cardinality(places) THEN k ELSE Cardinality(places)

\* The labels fit_predict may give: every labelling a converged fit can end
\* in, whatever the order the centres were drawn in. A label is the argmin over
\* the centres at the sample's coordinates, so it is a function of the place.
Labellings(addresses, k) ==
  LET n == Len(addresses)
      lat(i) == addresses[i].coordinate.num
      places == { lat(i) : i \in 1..n }
  IN { lab \in { [i \in 1..n |-> label_at[lat(i)]] : label_at \in [places -> 0..(k - 1)] } :
         kmeans_partition(addresses, lab, k) }

\* the run of one request: its random_seed and its local state
RunState ==
  [random_seed |-> req.random_seed,
   pc |-> pc, labels |-> labels, team_assignments |-> team_assignments,
   iteration_count |-> iteration_count, console |-> console, error |-> error,
   exit_code |-> exit_code, centroids |-> centroids,
   color_assignments |-> color_assignments, result |-> result]

InitRun ==
  [random_seed |-> DefaultSeed,
   pc |-> "start", labels |-> << >>, team_assignments |-> << >>,
   iteration_count |-> 0, console |-> << >>, error |-> "",
   exit_code |-> -1, centroids |-> << >>,
   color_assignments |-> << >>, result |-> << >>]

EmptyDict == [k \in {} |-> 0]            \* {}

\* a file: missing, not parseable as json, or json holding a dict
CacheFile(state, dict) == [state |-> state, dict |-> dict]

\* geocode_addresses is not running
GeoIdle ==
  /\ cache_file = CacheFile("missing", EmptyDict)
  /\ cache = << >>
  /\ coordinates = << >>
  /\ failed_addresses = << >>
  /\ addresses_to_geocode = << >>
  /\ loop_idx = 0
  /\ events = << >>

\* nothing has run yet
InitRunState ==
  /\ GeoIdle
  /\ pc = "start"
  /\ labels = << >>
  /\ team_assignments = << >>
  /\ iteration_count = 0
  /\ console = << >>
  /\ error = ""
  /\ exit_code = -1
  /\ centroids = << >>
  /\ color_assignments = << >>
  /\ result = << >>
  /\ fits = EmptyDict

InitRequest ==
  /\ InitRunState
  /\ other = InitRun

Init ==
  /\ req \in Requests \cup UnevenRequests \cup CrowdedRequests \cup UngeocodedRequests
  /\ InitRequest
  /\ call = NoCall
  /\ ret = << >>

\* ----------------------------------------------------------------- actions
Exit(reason, message) ==
  /\ console' = Append(console, message)
  /\ error' = reason
  /\ exit_code' = 1
  /\ pc' = "exited"

\* names_too_short with <= for <
names_too_short_inclusive(team_names, num_teams) == Len(team_names) <= num_teams

\* line 60
names_too_short(team_names, num_teams) == Len(team_names) < num_teams

\* lines 60-64
CheckNames ==
  /\ pc = "start"
  /\ IF names_too_short(req.team_names, req.num_teams)
     THEN /\ pc' = "raised"
          /\ error' = "not_enough_names"
     ELSE /\ pc' = "kmeans"
          /\ UNCHANGED error
  /\ UNCHANGED << req, labels, team_assignments, iteration_count, console,
                  exit_code, centroids, color_assignments, result, other, fits, call, ret, geo_vars >>

\* lines 65-67: addr.coordinate.latitude of an address without coordinate
missing_coordinate(addresses) ==
  \E i \in 1..Len(addresses) : addresses[i].coordinate = None

\* line 69 with KMeans(n_clusters=num_teams, n_init=10): no random_state, the
\* initialisations are drawn from numpy's global random state
random_state_unset(random_seed) == Unseeded

\* line 69: KMeans(..., random_state=random_seed)
random_state(random_seed) == random_seed

\* lines 65-70: the array of the coordinates raises AttributeError on an address
\* without coordinate; KMeans(...).fit_predict raises when there are fewer
\* samples than clusters. A fit with an integer random_state is a function of
\* the samples, n_clusters and random_state: it gives the labels it gave
\* before; a fit without one draws its labels anew.
FitPredict ==
  /\ pc = "kmeans"
  /\ IF missing_coordinate(req.addresses)
     THEN /\ pc' = "raised"
          /\ error' = "AttributeError"
          /\ UNCHANGED << labels, fits >>
     ELSE IF req.num_teams > Len(req.addresses)
     THEN /\ pc' = "raised"
          /\ error' = "kmeans"
          /\ UNCHANGED << labels, fits >>
     ELSE LET seed == random_state(req.random_seed)
          IN /\ \E lab \in IF seed \in DOMAIN fits
                             THEN { fits[seed] }
                             ELSE Labellings(req.addresses, req.num_teams) :
                  /\ labels' = lab
                  /\ fits' = IF seed = Unseeded THEN fits
                             ELSE [x \in DOMAIN fits \cup { seed } |->
                                     IF x = seed THEN lab ELSE fits[x]]
             /\ pc' = "labelled"
             /\ UNCHANGED error
  /\ UNCHANGED << req, team_assignments, iteration_count, console,
                  exit_code, centroids, color_assignments, result, other, call, ret, geo_vars >>

\* lines 72-74
BuildAssignments ==
  /\ pc = "labelled"
  /\ team_assignments' = group_by_label(req.addresses, labels, req.num_teams)
  /\ pc' = "redistribute"
  /\ UNCHANGED << req, labels, iteration_count, console, error,
                  exit_code, centroids, color_assignments, result, other, fits, call, ret, geo_vars >>

\* lines 149-170: the checks _redistribute_addresses makes before its loop
RedistributeEntry ==
  /\ pc = "redistribute"
  /\ IF overloaded(team_assignments, req.max_trees) = {}
     THEN /\ pc' = "colors"
          /\ UNCHANGED << console, error, exit_code, iteration_count >>
     ELSE IF Cardinality(DOMAIN team_assignments) = 1
     THEN /\ Exit("single_team", Message("single_team", Len(team_assignments[0])))
          /\ UNCHANGED iteration_count
     ELSE IF all_at_capacity(team_assignments, req.max_trees)
     THEN /\ Exit("all_at_capacity", Message("all_at_capacity", 0))
          /\ UNCHANGED iteration_count
     ELSE /\ iteration_count' = 0
          /\ pc' = "loop"
          /\ UNCHANGED << console, error, exit_code >>
  /\ UNCHANGED << req, labels, team_assignments, centroids, color_assignments,
                  result, other, fits, call, ret, geo_vars >>

\* lines 172-214: one iteration of the while loop
RepairIteration ==
  /\ pc = "loop"
  /\ any_overloaded(team_assignments, req.max_trees)
  /\ iteration_count < max_iterations
  /\ \E mv \in repair_moves(team_assignments, req.max_trees) :
       IF mv.address = NoAddress \/ mv.target = NoTeam
       THEN /\ Exit("no_valid_move", Message("no_valid_move", 0))
            /\ UNCHANGED << team_assignments, iteration_count >>
       ELSE /\ team_assignments' =
                 apply_move(team_assignments,
                            most_overloaded(team_assignments, req.max_trees), mv)
            /\ iteration_count' = iteration_count + 1
            /\ UNCHANGED << pc, console, error, exit_code >>
  /\ UNCHANGED << req, labels, centroids, color_assignments, result, other, fits, call, ret, geo_vars >>

\* lines 216-229: after the while loop
LoopExit ==
  /\ pc = "loop"
  /\ ~(any_overloaded(team_assignments, req.max_trees) /\ iteration_count < max_iterations)
  /\ IF iteration_count >= max_iterations
     THEN Exit("iteration_cap", Message("iteration_cap", max_iterations))
     ELSE /\ console' = IF iteration_count > 0
                        THEN Append(console, Message("iterations", iteration_count))
                        ELSE console
          /\ pc' = "colors"
          /\ UNCHANGED << error, exit_code >>
  /\ UNCHANGED << req, labels, team_assignments, iteration_count, centroids,
                  color_assignments, result, other, fits, call, ret, geo_vars >>

\* lines 78-101: global warnings, centroids, color assignment
AssignColors ==
  /\ pc = "colors"
  /\ centroids' = team_centroids(team_assignments)
  /\ color_assignments' = assign_colors_optimally(req.num_teams, team_centroids(team_assignments))
  /\ pc' = "teams"
  /\ UNCHANGED << req, labels, team_assignments, iteration_count, console, error,
                  exit_code, result, other, fits, call, ret, geo_vars >>

\* lines 103-131: the teams, with their metrics and warnings, and the result
BuildTeams ==
  /\ pc = "teams"
  /\ result' = << [teams |-> [i \in 1..req.num_teams |->
                                make_team(req.team_names[i], team_assignments[i - 1],
                                          color_assignments[i - 1])],
                   total_addresses |-> Len(req.addresses),
                   num_teams |-> req.num_teams,
                   global_warnings |-> global_warnings(req.num_teams)] >>
  /\ pc' = "returned"
  /\ UNCHANGED << req, labels, team_assignments, iteration_count, console, error,
                  exit_code, centroids, color_assignments, other, fits, call, ret, geo_vars >>

Next ==
  \/ CheckNames
  \/ FitPredict
  \/ BuildAssignments
  \/ RedistributeEntry
  \/ RepairIteration
  \/ LoopExit
  \/ AssignColors
  \/ BuildTeams

Spec == Init /\ [][Next]_vars

\* the requests of up to MaxLive addresses with a name for each team and
\* max_trees >= 1
LiveRequests ==
  { r \in Requests : /\ Len(r.addresses) <= MaxLive
                    /\ Len(r.team_names) = r.num_teams
                    /\ r.max_trees >= 1 }

InitLive ==
  /\ req \in LiveRequests
  /\ InitRequest
  /\ call = NoCall
  /\ ret = << >>

\* the statements of _redistribute_addresses
RedistributeStep ==
  \/ RedistributeEntry
  \/ RepairIteration
  \/ LoopExit

\* the interpreter runs _redistribute_addresses on: a statement of it that can
\* run does run
SpecLive == InitLive /\ [][Next]_vars /\ WF_vars(RedistributeStep)

\* ------------------------------------------- redistribution at the cap
\* Direct calls of _redistribute_addresses with two teams, every address in
\* team 0 and max_trees = max_iterations: max_iterations - 1, max_iterations
\* or max_iterations + 1 addresses too many in team 0.
CapRequests ==
  { Request([i \in 1..(2 * max_iterations + d) |-> Address(i, 0)],
            2, TeamNames(2), max_iterations) : d \in {-1, 0, 1} }

InitCap ==
  /\ req \in CapRequests
  /\ GeoIdle
  /\ pc = "redistribute"
  /\ labels = [i \in 1..Len(req.addresses) |-> 0]
  /\ team_assignments = group_by_label(req.addresses, labels, req.num_teams)
  /\ iteration_count = 0
  /\ console = << >>
  /\ error = ""
  /\ exit_code = -1
  /\ centroids = << >>
  /\ color_assignments = << >>
  /\ result = << >>
  /\ other = InitRun
  /\ fits = EmptyDict
  /\ call = NoCall
  /\ ret = << >>

NextCap ==
  \/ RedistributeEntry
  \/ RepairIteration
  \/ LoopExit

SpecCap == InitCap /\ [][NextCap]_vars

\* ------------------------------------------- two runs of the same request
\* the seeds of the tests: random_seed=42 and random_seed=100, --seed 100
Seeds == { DefaultSeed, 100 }

\* The request at hand is put aside and the other one, which has the same
\* arguments but for its seed, is taken up: the two runs interleave in every
\* order.
Switch ==
  /\ other' = RunState
  /\ req' = [req EXCEPT !.random_seed = other.random_seed]
  /\ pc' = other.pc
  /\ labels' = other.labels
  /\ team_assignments' = other.team_assignments
  /\ iteration_count' = other.iteration_count
  /\ console' = other.console
  /\ error' = other.error
  /\ exit_code' = other.exit_code
  /\ centroids' = other.centroids
  /\ color_assignments' = other.color_assignments
  /\ result' = other.result
  /\ UNCHANGED << fits, call, ret, geo_vars >>

ReproRequests ==
  { r \in Requests : /\ Len(r.addresses) = MaxAddresses
                    /\ r.max_trees >= 1
                    /\ Len(r.team_names) <= r.num_teams } \cup WideRequests

\* the requests that are also run under two different seeds: addresses at
\* places without symmetry, two of them to a team
TwoSeedRequests ==
  { r \in ReproRequests : /\ r.addresses = AddressList(<< 2, 0, 1, 5, 2, 7 >>, MaxAddresses)
                         /\ r.max_trees = 2 }

\* the second run has the seed of the first or, for the requests of
\* TwoSeedRequests, the other seed of the tests
InitRepro ==
  /\ req \in ReproRequests
  /\ InitRunState
  /\ \E seed \in IF req \in TwoSeedRequests THEN Seeds ELSE { req.random_seed } :
       other = [InitRun EXCEPT !.random_seed = seed]
  /\ call = NoCall
  /\ ret = << >>

NextRepro ==
  \/ Next
  \/ Switch

SpecRepro == InitRepro /\ [][NextRepro]_vars

\* ------------------------------------------------ calls of pure functions
NoRequest == Request(<< >>, 0, << >>, 0)

MstLatitudes == { 0, 1, 3 }

\* address lists of up to MaxList addresses, some of them without coordinate
MstInputs ==
  UNION { [1..n -> { None } \cup { Coordinate(l) : l \in MstLatitudes }] : n \in 0..MaxList }

MstCalls ==
  { [fn |-> "calculate_mst_distance",
     args |-> [i \in DOMAIN cs |-> [address_number |-> i, coordinate |-> cs[i]]]] :
      cs \in MstInputs }

\* validate_team_count(num_addresses, num_teams)
TeamCountCalls ==
  { [fn |-> "validate_team_count", args |-> << n, k >>] :
      n \in 0..MaxCount, k \in (-1)..(MaxTeams + 1) }

\* validate_capacity(num_addresses, num_teams, max_trees)
CapacityCalls ==
  { [fn |-> "validate_capacity", args |-> << n, k, c >>] :
      n \in 0..MaxCount, k \in 0..MaxTeams, c \in 0..MaxCapacity }

\* detect_outliers(addresses, threshold_km): 0 km, 16 km (between one and two
\* units of latitude) and 40 km (between two and three units)
OutlierThresholds == { 0, 16, 40 }

OutlierCalls ==
  { [fn |-> "detect_outliers",
     args |-> << [i \in DOMAIN ls |-> Address(i, ls[i])], t >>] :
      ls \in UNION { [1..n -> MstLatitudes] : n \in 0..MaxList },
      t \in OutlierThresholds }

\* _assign_colors_optimally(num_teams, team_centroids): the centroids of the
\* first teams come from one of three rows (-1: the team has no address and no
\* centroid), those of the teams after the last color are free
NoCentroid == [num |-> -1, den |-> 1]

ColorRows ==
  { << 0, 3, 7, 1, 9, 4, 12, 6, 2, 10, 5, 8 >>,
    << 0, 0, 0, 0, 0, 0, 0, 0, 0, 0, 0, 0 >>,
    << 4, -1, 8, 2, -1, -1, 0, 6, 6, -1, 12, 4 >> }

LateCentroids ==
  { NoCentroid, Coordinate(0), Coordinate(6), Coordinate(12), [num |-> 13, den |-> 2] }

CentroidDict(row, late, num_teams) ==
  LET at(i) == IF i < NumColors THEN Coordinate(row[i + 1]) ELSE late[i]
  IN [i \in { j \in 0..(num_teams - 1) : at(j) # NoCentroid } |-> at(i)]

ColorCalls ==
  { [fn |-> "_assign_colors_optimally", args |-> << k, CentroidDict(row, late, k) >>] :
      k \in 1..(NumColors + 2), row \in ColorRows,
      late \in [NumColors..(NumColors + 1) -> LateCentroids] }

FnCalls ==
  MstCalls \cup TeamCountCalls \cup CapacityCalls \cup OutlierCalls \cup ColorCalls

InitFn ==
  /\ req = NoRequest
  /\ InitRequest
  /\ call \in FnCalls
  /\ ret = << >>

CallMst ==
  /\ call.fn = "calculate_mst_distance"
  /\ ret = << >>
  /\ ret' = << calculate_mst_distance(call.args) >>
  /\ UNCHANGED << req, pc, labels, team_assignments, iteration_count, console, error,
                  exit_code, centroids, color_assignments, result, other, fits, call, geo_vars >>

CallValidateTeamCount ==
  /\ call.fn = "validate_team_count"
  /\ ret = << >>
  /\ ret' = << validate_team_count(call.args[1], call.args[2]) >>
  /\ UNCHANGED << req, pc, labels, team_assignments, iteration_count, console, error,
                  exit_code, centroids, color_assignments, result, other, fits, call, geo_vars >>

CallValidateCapacity ==
  /\ call.fn = "validate_capacity"
  /\ ret = << >>
  /\ ret' = << validate_capacity(call.args[1], call.args[2], call.args[3]) >>
  /\ UNCHANGED << req, pc, labels, team_assignments, iteration_count, console, error,
                  exit_code, centroids, color_assignments, result, other, fits, call, geo_vars >>

CallDetectOutliers ==
  /\ call.fn = "detect_outliers"
  /\ ret = << >>
  /\ ret' = << Returned(detect_outliers(call.args[1], call.args[2])) >>
  /\ UNCHANGED << req, pc, labels, team_assignments, iteration_count, console, error,
                  exit_code, centroids, color_assignments, result, other, fits, call, geo_vars >>

CallAssignColors ==
  /\ call.fn = "_assign_colors_optimally"
  /\ ret = << >>
  /\ ret' = << Returned(assign_colors_optimally(call.args[1], call.args[2])) >>
  /\ UNCHANGED << req, pc, labels, team_assignments, iteration_count, console, error,
                  exit_code, centroids, color_assignments, result, other, fits, call, geo_vars >>

NextFn ==
  \/ CallMst
  \/ CallValidateTeamCount
  \/ CallValidateCapacity
  \/ CallDetectOutliers
  \/ CallAssignColors

SpecFn == InitFn /\ [][NextFn]_vars

\* ---------------------------------------------- Geocoder.geocode_addresses
\* csv_parser.normalize_address: lower case, stripped, single spaces
normalize_address(address) ==
  CASE address = "123 Main St" -> "123 main st"
    [] address = " 123  main st " -> "123 main st"
    [] address = "456 Elm St" -> "456 elm st"
    [] address = "789 Oak Ave" -> "789 oak ave"
    [] address = "123  main st" -> "123 main st"
    [] address = "1 Far Rd" -> "1 far rd"

AddressStrings == { "123 Main St", " 123  main st ", "456 Elm St", "789 Oak Ave" }

NormalizedStrings == { normalize_address(a) : a \in AddressStrings }

\* the latitude an earlier run stored in the cache (in 1/8 degree)
CachedLatitude(normalized) ==
  CASE normalized = "123 main st" -> 1
    [] normalized = "456 elm st" -> 3
    [] normalized = "789 oak ave" -> 6
    [] normalized = "1 far rd" -> 12

\* the latitude Nominatim gives now (in 1/8 degree): not the cached one, and
\* one place for the three street addresses
FoundLatitude(normalized) ==
  CASE normalized = "123 main st" -> 2
    [] normalized = "456 elm st" -> 2
    [] normalized = "789 oak ave" -> 2
    [] normalized = "1 far rd" -> 13

\* what Nominatim answers now when it finds the address: the place, with its
\* display name, is the same for every spelling of the address
Location(address) ==
  [latitude |-> FoundLatitude(normalize_address(address)),
   address |-> normalize_address(address)]

\* one entry of the cache dict (the longitude is that of the meridian)
CacheEntry(latitude, display_name) == [lat |-> latitude, display_name |-> display_name]

\* the cache file: none, one that json cannot parse, or a dict of earlier runs
CacheFiles ==
  { CacheFile("missing", EmptyDict), CacheFile("corrupted", EmptyDict) } \cup
  { CacheFile("json", [k \in keys |-> CacheEntry(CachedLatitude(k), k)]) :
      keys \in SUBSET NormalizedStrings }

GeocodeCalls ==
  { [fn |-> "geocode_addresses", args |-> << addresses, file >>] :
      addresses \in UNION { [1..n -> AddressStrings] : n \in 0..MaxGeocode },
      file \in CacheFiles }

\* lines 128-141: {} when the file is missing or cannot be parsed
load_cache(file) ==
  IF file.state \in { "missing", "corrupted" } THEN EmptyDict ELSE file.dict

\* what a write of the cache file ends in: json.dump wrote the dict; open()
\* raised (the directory of the path does not exist, the file may not be
\* written); or json.dump raised after open() had created or emptied the file
SaveOutcomes == { "written", "open_raised", "dump_raised" }

\* lines 143-150: the file holds the dict; or it is left as it was; or it is
\* left empty or cut off, which json cannot parse
save_cache(dict, file, outcome) ==
  IF outcome = "written" THEN CacheFile("json", dict)
  ELSE IF outcome = "open_raised" THEN file
  ELSE CacheFile("corrupted", EmptyDict)

\* lines 149-150: the warning of a write that failed
save_warning(outcome) ==
  IF outcome = "written" THEN << >> ELSE << Message("save_failed", 0) >>

\* lines 103-104 and 112-113
sleep_always(idx, misses) == << Message("sleep", 1) >>

sleep_between(idx, misses) ==
  IF idx < misses - 1 THEN << Message("sleep", 1) >> ELSE << >>

\* line 120 with "more than one failure"
has_failures_several(failed) == Len(failed) > 1

\* line 120
has_failures(failed) == failed # << >>

\* lines 51-62: the scan of the input against the cache
RECURSIVE ScanCache(_, _, _, _)
ScanCache(addresses, dict, i, acc) ==
  IF i > Len(addresses) THEN acc
  ELSE LET normalized == normalize_address(addresses[i])
       IN IF normalized \in DOMAIN dict
          THEN ScanCache(addresses, dict, i + 1,
                         [acc EXCEPT !.coordinates =
                            Append(@, Coordinate(dict[normalized].lat))])
          ELSE ScanCache(addresses, dict, i + 1,
                         [acc EXCEPT !.addresses_to_geocode =
                            Append(@, << i, addresses[i], normalized >>)])

InitGeo ==
  /\ req = NoRequest
  /\ call \in GeocodeCalls
  /\ ret = << >>
  /\ pc = "geo_start"
  /\ labels = << >>
  /\ team_assignments = << >>
  /\ iteration_count = 0
  /\ console = << >>
  /\ error = ""
  /\ exit_code = -1
  /\ centroids = << >>
  /\ color_assignments = << >>
  /\ result = << >>
  /\ other = InitRun
  /\ fits = EmptyDict
  /\ cache_file = call.args[2]
  /\ cache = << >>
  /\ coordinates = << >>
  /\ failed_addresses = << >>
  /\ addresses_to_geocode = << >>
  /\ loop_idx = 0
  /\ events = << >>

cluster_vars == << req, labels, team_assignments, iteration_count, error,
                   centroids, color_assignments, result, other, fits, call >>

\* lines 45-62
GeoScan ==
  /\ pc = "geo_start"
  /\ LET scan == ScanCache(call.args[1], load_cache(cache_file), 1,
                           [coordinates |-> << >>, addresses_to_geocode |-> << >>])
     IN /\ cache' = load_cache(cache_file)
        /\ coordinates' = scan.coordinates
        /\ addresses_to_geocode' = scan.addresses_to_geocode
        /\ pc' = IF Len(scan.addresses_to_geocode) > 0 THEN "geo_loop" ELSE "geo_save"
  /\ console' = IF cache_file.state = "corrupted"
                THEN Append(console, Message("cache_corrupted", 0))
                ELSE console
  /\ failed_addresses' = << >>
  /\ loop_idx' = 0
  /\ UNCHANGED << cluster_vars, ret, exit_code, cache_file, events >>

\* lines 80-113: one lookup; Nominatim finds the address, finds nothing, or
\* the request raises
GeoLookup ==
  /\ pc = "geo_loop"
  /\ loop_idx < Len(addresses_to_geocode)
  /\ LET idx == addresses_to_geocode[loop_idx + 1][1]
         original_address == addresses_to_geocode[loop_idx + 1][2]
         normalized == addresses_to_geocode[loop_idx + 1][3]
     IN /\ \E outcome \in { "location", "none", "raise" } :
             /\ IF outcome = "location"
                THEN LET location == Location(original_address)
                     IN /\ coordinates' = Append(coordinates, Coordinate(location.latitude))
                        /\ cache' = [k \in DOMAIN cache \cup { normalized } |->
                                       IF k = normalized
                                       THEN CacheEntry(location.latitude, location.address)
                                       ELSE cache[k]]
                        /\ UNCHANGED failed_addresses
                ELSE /\ failed_addresses' =
                          Append(failed_addresses,
                                 << idx, original_address,
                                    IF outcome = "none" THEN "could not be geocoded"
                                    ELSE "exception" >>)
                     /\ UNCHANGED << coordinates, cache >>
             /\ events' = events \o << Message("request", idx), Message(outcome, idx) >>
                                  \o sleep_between(loop_idx, Len(addresses_to_geocode))
  /\ loop_idx' = loop_idx + 1
  /\ pc' = IF loop_idx + 1 < Len(addresses_to_geocode) THEN "geo_loop" ELSE "geo_save"
  /\ UNCHANGED << cluster_vars, ret, console, exit_code, cache_file, addresses_to_geocode >>

\* line 115: _save_cache writes the file or warns that it could not
GeoSaveCache ==
  /\ pc = "geo_save"
  /\ \E outcome \in SaveOutcomes :
       /\ cache_file' = save_cache(cache, cache_file, outcome)
       /\ console' = console \o save_warning(outcome)
  /\ events' = Append(events, Message("save", 0))
  /\ pc' = "geo_report"
  /\ UNCHANGED << cluster_vars, ret, exit_code, cache, coordinates,
                  failed_addresses, addresses_to_geocode, loop_idx >>

\* lines 117-126
GeoFinish ==
  /\ pc = "geo_report"
  /\ LET success_count == Len(call.args[1]) - Len(failed_addresses)
     IN IF has_failures(failed_addresses)
        THEN /\ console' = console \o << Message("geocoded", success_count) >>
                             \o [i \in DOMAIN failed_addresses |->
                                   Message("failed", failed_addresses[i][1])]
             /\ exit_code' = 1
             /\ events' = Append(events, Message("exit", 1))
             /\ pc' = "exited"
             /\ UNCHANGED ret
        ELSE /\ console' = Append(console, Message("geocoded", success_count))
             /\ ret' = << Returned(coordinates) >>
             /\ pc' = "returned"
             /\ UNCHANGED << exit_code, events >>
  /\ UNCHANGED << cluster_vars, cache_file, cache, coordinates, failed_addresses,
                  addresses_to_geocode, loop_idx >>

NextGeo ==
  \/ GeoScan
  \/ GeoLookup
  \/ GeoSaveCache
  \/ GeoFinish

SpecGeo == InitGeo /\ [][NextGeo]_vars

\* ------------------------------------------------------------- cli.main
\* str.strip() of a row of the csv file
strip(address) ==
  CASE address = " 123  main st " -> "123  main st"
    [] address = " " -> ""
    [] OTHER -> address

\* the address column of the csv file, row by row
CsvRows == AddressStrings \cup { "1 Far Rd", " " }

\* csv_parser.parse_addresses, lines 46-68, from row i on: blank rows are
\* skipped, a duplicate (after normalisation) or an empty list exits
RECURSIVE ParseRows(_, _, _, _)
ParseRows(rows, i, seen_normalized, addresses) ==
  IF i > Len(rows)
  THEN IF addresses = << >> THEN SystemExit(1) ELSE Returned(addresses)
  ELSE LET address == strip(rows[i])
       IN IF address = ""
          THEN ParseRows(rows, i + 1, seen_normalized, addresses)
          ELSE IF normalize_address(address) \in seen_normalized
          THEN SystemExit(1)
          ELSE ParseRows(rows, i + 1, seen_normalized \cup { normalize_address(address) },
                         Append(addresses, address))

parse_addresses(rows) == ParseRows(rows, 1, {}, << >>)

\* cli_checks without validate_capacity
cli_checks_no_capacity(num_addresses, teams, max_trees) ==
  IF max_trees < 1 THEN SystemExit(1)
  ELSE validate_team_count(num_addresses, teams)

\* cli.py lines 69-74: the three checks made before the geocoder is built
cli_checks(num_addresses, teams, max_trees) ==
  IF max_trees < 1 THEN SystemExit(1)
  ELSE IF validate_team_count(num_addresses, teams).raised THEN SystemExit(1)
  ELSE validate_capacity(num_addresses, teams, max_trees)

\* validators.detect_global_outliers: the addresses more than threshold_km from
\* the centroid of all of them, none when there are two addresses or fewer
detect_global_outliers(addresses, threshold_km) ==
  IF Len(addresses) <= 2 THEN << >>
  ELSE SelectSeq(addresses,
                 LAMBDA addr : ExceedsKm(haversine_distance(addr.coordinate,
                                                            Centroid(addresses)),
                                         threshold_km))

\* cli.py line 89, outlier.is_outlier = True: models.Address declares no field
\* is_outlier and allows no extra ones, so the assignment raises ValueError
set_is_outlier(address) == Raised

\* team_generator.generate_team_names: count distinct names
generate_team_names(count) == [i \in 1..count |-> 100 + i]

\* visualizer.create_ascii_map lines 22-25: the addresses put on the map, team
\* by team from team i on
RECURSIVE all_addresses(_, _)
all_addresses(teams, i) ==
  IF i > Len(teams) THEN << >>
  ELSE teams[i].addresses \o all_addresses(teams, i + 1)

\* the cache files main is run with
CliCacheFiles ==
  { CacheFile("missing", EmptyDict),
    CacheFile("json", [k \in { "123 main st", "456 elm st" } |->
                         CacheEntry(CachedLatitude(k), k)]) }

\* the values of --seed main is run with: the default, and 100 as well on the
\* runs whose rows are all in the cache file (no lookup is made)
CliSeeds(rows, file) ==
  IF \A i \in DOMAIN rows : /\ rows[i] \in AddressStrings
                             /\ normalize_address(rows[i]) \in DOMAIN load_cache(file)
  THEN Seeds ELSE { DefaultSeed }

\* main(rows of --addresses, --cache-file, --teams, --max-trees, --seed)
MainCalls ==
  { c \in { [fn |-> "main", args |-> << rows, file, teams, max_trees, seed >>] :
               rows \in UNION { [1..n -> CsvRows] : n \in 0..MaxGeocode },
               file \in CliCacheFiles,
               teams \in 0..MaxTeams,
               max_trees \in 0..MaxTrees,
               seed \in Seeds } :
      c.args[5] \in CliSeeds(c.args[1], c.args[2]) }

InitCli ==
  /\ req = NoRequest
  /\ call \in MainCalls
  /\ ret = << >>
  /\ pc = "cli_parse"
  /\ labels = << >>
  /\ team_assignments = << >>
  /\ iteration_count = 0
  /\ console = << >>
  /\ error = ""
  /\ exit_code = -1
  /\ centroids = << >>
  /\ color_assignments = << >>
  /\ result = << >>
  /\ other = InitRun
  /\ fits = EmptyDict
  /\ cache_file = call.args[2]
  /\ cache = << >>
  /\ coordinates = << >>
  /\ failed_addresses = << >>
  /\ addresses_to_geocode = << >>
  /\ loop_idx = 0
  /\ events = << >>

\* lines 62-67: address_strings = parse_addresses(args.addresses)
CliParse ==
  /\ pc = "cli_parse"
  /\ LET parsed == parse_addresses(call.args[1])
     IN IF parsed.raised
        THEN /\ console' = Append(console, Message("csv_error", 0))
             /\ exit_code' = parsed.value
             /\ events' = Append(events, Message("exit", parsed.value))
             /\ pc' = "exited"
             /\ UNCHANGED call
        ELSE /\ call' = [call EXCEPT !.args[1] = parsed.value]
             /\ console' = Append(console, Message("loaded", Len(parsed.value)))
             /\ events' = Append(events, Message("parse_addresses", Len(parsed.value)))
             /\ pc' = "cli_checks"
             /\ UNCHANGED exit_code
  /\ UNCHANGED << req, labels, team_assignments, iteration_count, error, centroids,
                  color_assignments, result, other, fits, ret, cache_file, cache, coordinates,
                  failed_addresses, addresses_to_geocode, loop_idx >>

\* lines 69-76: the checks, and on their success the geocoder
CliChecks ==
  /\ pc = "cli_checks"
  /\ LET checked == cli_checks(Len(call.args[1]), call.args[3], call.args[4])
     IN IF checked.raised
        THEN /\ console' = Append(console, Message("error", checked.value))
             /\ exit_code' = checked.value
             /\ events' = events \o << Message("checks", 1), Message("exit", checked.value) >>
             /\ pc' = "exited"
        ELSE /\ events' = Append(events, Message("checks", 0))
             /\ pc' = "geo_start"
             /\ UNCHANGED << console, exit_code >>
  /\ UNCHANGED << req, labels, team_assignments, iteration_count, error, centroids,
                  color_assignments, result, other, fits, call, ret, cache_file, cache,
                  coordinates, failed_addresses, addresses_to_geocode, loop_idx >>

\* lines 77-98: the addresses with their coordinates, the global outliers, the
\* team names and the call of cluster_addresses
CliBuildAddresses ==
  /\ call.fn = "main"
  /\ pc = "returned"
  /\ req = NoRequest
  /\ LET n == IF Len(call.args[1]) < Len(ret[1].value)
              THEN Len(call.args[1]) ELSE Len(ret[1].value)
         addresses == [i \in 1..n |->
                         [address_number |-> i, coordinate |-> ret[1].value[i]]]
         outliers == detect_global_outliers(addresses, 50)
     IN IF outliers # << >> /\ set_is_outlier(outliers[1]).raised
        THEN /\ console' = Append(console, Message("global_outliers", Len(outliers)))
             /\ error' = "ValueError"
             /\ exit_code' = 1
             /\ pc' = "raised"
             /\ UNCHANGED req
        ELSE /\ console' = IF outliers # << >>
                           THEN Append(console, Message("global_outliers", Len(outliers)))
                           ELSE console
             /\ req' = [Request(addresses, call.args[3],
                                generate_team_names(call.args[3]), call.args[4])
                          EXCEPT !.random_seed = call.args[5]]
             /\ pc' = "start"
             /\ UNCHANGED << error, exit_code >>
  /\ UNCHANGED << labels, team_assignments, iteration_count, centroids,
                  color_assignments, result, other, fits, call, ret, geo_vars >>

\* lines 100-145: the table, the warnings, the map (skipped on a small
\* terminal), the file (which may fail to be written) and exit code 0
CliOutput ==
  /\ call.fn = "main"
  /\ pc = "returned"
  /\ result # << >>
  /\ \E small \in BOOLEAN, saved \in BOOLEAN :
       LET drawn == IF small THEN << >> ELSE all_addresses(result[1].teams, 1)
       IN events' = events
                    \o [k \in 1..Len(drawn) |-> Message("draw", drawn[k].address_number)]
                    \o (IF saved THEN << Message("export", 0) >> ELSE << >>)
                    \o << Message("exit", 0) >>
  /\ console' = Append(console, Message("table", Len(result[1].teams)))
  /\ exit_code' = 0
  /\ pc' = "exited"
  /\ UNCHANGED << req, labels, team_assignments, iteration_count, error, centroids,
                  color_assignments, result, other, fits, call, ret, cache_file, cache,
                  coordinates, failed_addresses, addresses_to_geocode, loop_idx >>

NextCli ==
  \/ CliParse
  \/ CliChecks
  \/ GeoScan
  \/ GeoLookup
  \/ GeoSaveCache
  \/ GeoFinish
  \/ CliBuildAddresses
  \/ CheckNames
  \/ FitPredict
  \/ BuildAssignments
  \/ RedistributeEntry
  \/ RepairIteration
  \/ LoopExit
  \/ AssignColors
  \/ BuildTeams
  \/ CliOutput

SpecCli == InitCli /\ [][NextCli]_vars

\* main under weak fairness: a run that can take a step takes one
SpecCliLive == InitCli /\ [][NextCli]_vars /\ WF_vars(NextCli)

\* ================================================================== claims
\* how many times address a occurs in the groups
Occurrences(groups, a) ==
  Cardinality({ p \in UNION { {i} \X DOMAIN groups[i] : i \in DOMAIN groups } :
                  groups[p[1]][p[2]] = a })

TotalSize(groups) ==
  SumRange([k \in 1..Cardinality(DOMAIN groups) |->
              Len(groups[CHOOSE i \in DOMAIN groups :
                           Cardinality({ j \in DOMAIN groups : j < i }) = k - 1])],
           1, Cardinality(DOMAIN groups))

IsPartition(groups, addresses) ==
  /\ \A a \in Range(addresses) : Occurrences(groups, a) = 1
  /\ \A i \in DOMAIN groups : Range(groups[i]) \subseteq Range(addresses)
  /\ TotalSize(groups) = Len(addresses)

Grouped == pc \in { "redistribute", "loop", "colors", "teams", "returned" }

Redistributed == pc \in { "colors", "teams", "returned" }

Terminal(p) == p \in { "raised", "exited", "returned" }

\* C1: once the labels are turned into groups, after every repair iteration and
\* in the returned result, every input address is in exactly one group and the
\* groups hold exactly the N input addresses (sum of team sizes = total_addresses = N).
C1_PartitionInvariant ==
  /\ Grouped => IsPartition(team_assignments, req.addresses)
  /\ pc = "returned" =>
       /\ IsPartition([i \in DOMAIN result[1].teams |-> result[1].teams[i].addresses],
                      req.addresses)
       /\ result[1].total_addresses = Len(req.addresses)

C1_Witness ==
  /\ pc = "returned"
  /\ iteration_count >= 2
  /\ IsPartition(team_assignments, req.addresses)

\* C2: whenever _redistribute_addresses returns, every group has at most
\* max_trees members, and so has every team of the returned ClusterResult.
C2_CapacityBound ==
  /\ Redistributed => \A i \in DOMAIN team_assignments : Len(team_assignments[i]) <= req.max_trees
  /\ pc = "returned" =>
       \A i \in DOMAIN result[1].teams : Len(result[1].teams[i].addresses) <= req.max_trees

C2_Witness ==
  /\ pc = "returned"
  /\ iteration_count >= 1
  /\ \E i \in DOMAIN result[1].teams : Len(result[1].teams[i].addresses) = req.max_trees

\* the state of a run apart from its seed
Progress(run) ==
  [pc |-> run.pc, labels |-> run.labels, team_assignments |-> run.team_assignments,
   iteration_count |-> run.iteration_count, console |-> run.console, error |-> run.error,
   exit_code |-> run.exit_code, centroids |-> run.centroids,
   color_assignments |-> run.color_assignments, result |-> run.result]

C3_WitnessSeeds ==
  /\ req.random_seed # other.random_seed
  /\ pc = "returned"
  /\ other.pc = "returned"
  /\ \E i \in DOMAIN result[1].teams :
       result[1].teams[i].addresses # other.result[1].teams[i].addresses

\* C4: when a group exceeds max_trees at entry, _redistribute_addresses exits
\* with code 1 for the single-group reason if there is one group, and otherwise
\* for the global-saturation reason if every group has size >= max_trees; it
\* does so before any point has moved, and no ClusterResult is returned.
C4_EntryStep ==
  (pc = "redistribute" /\ \E i \in DOMAIN team_assignments : Len(team_assignments[i]) > req.max_trees) =>
     /\ req.num_teams = 1 =>
          pc' = "exited" /\ exit_code' = 1 /\ error' = "single_team"
     /\ (req.num_teams # 1 /\ \A i \in DOMAIN team_assignments : Len(team_assignments[i]) >= req.max_trees) =>
          pc' = "exited" /\ exit_code' = 1 /\ error' = "all_at_capacity"
     /\ (req.num_teams # 1 /\ \E i \in DOMAIN team_assignments : Len(team_assignments[i]) < req.max_trees) =>
          pc' = "loop"
     /\ pc' = "exited" =>
          team_assignments' = team_assignments /\ iteration_count' = 0 /\ result' = << >>

C4_EntryFailures ==
  /\ [][C4_EntryStep]_vars
  /\ [](pc = "exited" => result = << >>)

C4_Witness ==
  /\ pc = "exited"
  /\ error = "all_at_capacity"
  /\ req.num_teams >= 2
  /\ \E i \in DOMAIN team_assignments : Len(team_assignments[i]) = req.max_trees
  /\ IsPartition(team_assignments, req.addresses)

\* C5: _redistribute_addresses fails for the iteration-cap reason if and only if
\* max_iterations repair iterations were made and some group still exceeds
\* max_trees; a run that has every group within max_trees after at most
\* max_iterations iterations (exactly max_iterations included) returns.
C5_IterationCap ==
  /\ error = "iteration_cap" <=>
       /\ pc = "exited"
       /\ iteration_count >= max_iterations
       /\ \E i \in DOMAIN team_assignments : Len(team_assignments[i]) > req.max_trees
  /\ (pc = "exited" /\ error # "single_team" /\ error # "all_at_capacity") =>
       \E i \in DOMAIN team_assignments : Len(team_assignments[i]) > req.max_trees

\* C6: a returned ClusterResult carries a warning (global or of a team) that
\* reports the n repair iterations when n >= 1, and no such warning when n = 0.
ResultWarnings ==
  Range(result[1].global_warnings)
    \cup UNION { Range(result[1].teams[i].warnings) : i \in DOMAIN result[1].teams }

C6_IterationWarning ==
  pc = "returned" =>
     /\ iteration_count >= 1 => Message("iterations", iteration_count) \in ResultWarnings
     /\ iteration_count = 0 => \A w \in ResultWarnings : w.kind # "iterations"

\* C7: when no group exceeds max_trees at entry, _redistribute_addresses returns
\* the assignment unchanged, with no iteration, no message and no failure, also
\* when every group is at capacity or there is one group only.
C7_BalancedStep ==
  (pc = "redistribute" /\ \A i \in DOMAIN team_assignments : Len(team_assignments[i]) <= req.max_trees) =>
     /\ pc' = "colors"
     /\ team_assignments' = team_assignments
     /\ iteration_count' = 0
     /\ console' = << >>
     /\ error' = ""
     /\ exit_code' = -1

C7_NoOpWhenBalanced == [][C7_BalancedStep]_vars

C7_Witness ==
  /\ pc = "colors"
  /\ iteration_count = 0
  /\ console = << >>
  /\ req.max_trees >= 1
  /\ \A i \in DOMAIN team_assignments : Len(team_assignments[i]) = req.max_trees

\* the weight of a minimum spanning tree of the complete graph on the addresses
CompleteEdges(n) == { e \in (1..n) \X (1..n) : e[1] < e[2] }

RECURSIVE Reach(_, _)
Reach(tree, seen) ==
  LET more == seen \cup { e[2] : e \in { x \in tree : x[1] \in seen } }
                   \cup { e[1] : e \in { x \in tree : x[2] \in seen } }
  IN IF more = seen THEN seen ELSE Reach(tree, more)

RECURSIVE Weight(_, _)
Weight(tree, addresses) ==
  IF tree = {} THEN 0
  ELSE LET e == CHOOSE x \in tree : TRUE
       IN haversine_distance(addresses[e[1]].coordinate, addresses[e[2]].coordinate).num
            + Weight(tree \ {e}, addresses)

MinSpanningTreeWeight(addresses) ==
  LET n == Len(addresses)
      weights == { Weight(tree, addresses) :
                     tree \in { t \in SUBSET CompleteEdges(n) :
                                  Cardinality(t) = n - 1 /\ Reach(t, {1}) = 1..n } }
  IN CHOOSE w \in weights : \A x \in weights : w <= x

\* C8: for addresses that all have coordinates, calculate_mst_distance returns 0
\* for 0 or 1 address, the haversine distance for 2, and for 3 or more the weight
\* of a minimum spanning tree of the complete graph of pairwise distances, also
\* when addresses share a coordinate.
C8_MstValue ==
  (/\ call.fn = "calculate_mst_distance"
   /\ ret # << >>
   /\ \A i \in DOMAIN call.args : call.args[i].coordinate # None) =>
     /\ ~ret[1].raised
     /\ ret[1].value =
          IF Len(call.args) <= 1 THEN 0
          ELSE IF Len(call.args) = 2
          THEN haversine_distance(call.args[1].coordinate, call.args[2].coordinate).num
          ELSE MinSpanningTreeWeight(call.args)

\* C9: calculate_mst_distance raises ValueError for every list that holds an
\* address without coordinate, whatever its length, and returns no number.
C9_MissingCoordinate ==
  (/\ call.fn = "calculate_mst_distance"
   /\ ret # << >>
   /\ \E i \in DOMAIN call.args : call.args[i].coordinate = None) =>
     ret[1].raised

\* C10: with fewer names than teams cluster_addresses raises before anything is
\* partitioned, redistributed, measured or colored, and returns nothing; with
\* enough names team i of the result is named team_names[i].
C10_NamesState ==
  /\ Len(req.team_names) < req.num_teams =>
       /\ pc \in { "start", "raised" }
       /\ pc = "raised" => error = "not_enough_names"
       /\ labels = << >>
       /\ team_assignments = << >>
       /\ centroids = << >>
       /\ color_assignments = << >>
       /\ console = << >>
       /\ result = << >>
  /\ pc = "returned" =>
       /\ Len(result[1].teams) = req.num_teams
       /\ \A i \in 1..req.num_teams : result[1].teams[i].name = req.team_names[i]

C10_NamesStep ==
  pc = "start" =>
     IF Len(req.team_names) < req.num_teams
     THEN pc' = "raised" /\ error' = "not_enough_names"
     ELSE pc' = "kmeans" /\ error' = ""

C10_TooFewNames ==
  /\ []C10_NamesState
  /\ [][C10_NamesStep]_vars

C10_Witness ==
  /\ pc = "raised"
  /\ error = "not_enough_names"
  /\ req.num_teams >= 2
  /\ Len(req.team_names) = req.num_teams - 1

\* C11: validate_team_count(N, K) ends the request with exit code 1 exactly when
\* K < 1 or K > N, and returns normally for every 1 <= K <= N.
C11_TeamCount ==
  (call.fn = "validate_team_count" /\ ret # << >>) =>
     LET N == call.args[1]
         K == call.args[2]
     IN IF K < 1 \/ K > N
        THEN ret[1] = SystemExit(1)
        ELSE ~ret[1].raised

C11_Witness ==
  /\ call.fn = "validate_team_count"
  /\ ret # << >>
  /\ call.args[1] >= 2
  /\ call.args[2] = call.args[1]
  /\ ~ret[1].raised

\* C12: validate_capacity(N, K, C) exits with code 1 exactly when
\* 5 * N >= 4 * K * C, and returns normally otherwise; (20, 3, 8) is rejected,
\* (19, 3, 8) and (1, 1, 8) pass.
C12_SafeCapacity ==
  (call.fn = "validate_capacity" /\ ret # << >>) =>
     LET N == call.args[1]
         K == call.args[2]
         C == call.args[3]
     IN /\ IF 5 * N >= 4 * K * C
           THEN ret[1] = SystemExit(1)
           ELSE ~ret[1].raised
        /\ call.args = << 20, 3, 8 >> => ret[1].raised
        /\ call.args \in { << 19, 3, 8 >>, << 1, 1, 8 >> } => ~ret[1].raised

\* a request exactly at 80 % of the capacity is rejected
C12_Witness ==
  /\ call.fn = "validate_capacity"
  /\ ret # << >>
  /\ call.args[1] >= 1
  /\ 5 * call.args[1] = 4 * call.args[2] * call.args[3]
  /\ ret[1] = SystemExit(1)

\* the distance of two addresses, in km as a fraction (pi taken as 355/113)
Km(a, b) ==
  LET dist == haversine_distance(a.coordinate, b.coordinate)
  IN [num |-> R * 355 * dist.num, den |-> 113 * 1440 * dist.den]

\* C13: detect_outliers(addresses, t) returns exactly one warning if some pair of
\* addresses is strictly more than t km apart and an empty list otherwise (a
\* pair exactly at t is not flagged); never more than one warning, and none for
\* 0 or 1 address.
C13_OutlierWarning ==
  (call.fn = "detect_outliers" /\ ret # << >>) =>
     LET addresses == call.args[1]
         t == [num |-> call.args[2], den |-> 1]
         warnings == ret[1].value
         far == { p \in (DOMAIN addresses) \X (DOMAIN addresses) :
                    p[1] # p[2] /\ RatLess(t, Km(addresses[p[1]], addresses[p[2]])) }
     IN /\ ~ret[1].raised
        /\ Len(warnings) = IF far # {} THEN 1 ELSE 0
        /\ Len(addresses) <= 1 => warnings = << >>

\* several pairs are beyond the threshold and one warning is returned
C13_Witness ==
  /\ call.fn = "detect_outliers"
  /\ ret # << >>
  /\ Len(ret[1].value) = 1
  /\ Cardinality({ p \in (DOMAIN call.args[1]) \X (DOMAIN call.args[1]) :
                     /\ p[1] < p[2]
                     /\ RatLess([num |-> call.args[2], den |-> 1],
                             Km(call.args[1][p[1]], call.args[1][p[2]])) }) >= 2

\* a pair exactly at the threshold is not flagged
C13_WitnessBoundary ==
  /\ call.fn = "detect_outliers"
  /\ ret # << >>
  /\ ret[1].value = << >>
  /\ \E i, j \in DOMAIN call.args[1] :
       /\ i # j
       /\ Km(call.args[1][i], call.args[1][j]).num
            = call.args[2] * Km(call.args[1][i], call.args[1][j]).den

\* C14: with num_teams <= 12 _assign_colors_optimally gives team i the color
\* TEAM_COLORS[i] for every i, whatever the centroids are and whichever teams
\* are empty, so no two teams share a color.
C14_SequentialColors ==
  (/\ call.fn = "_assign_colors_optimally"
   /\ ret # << >>
   /\ call.args[1] <= NumColors) =>
     LET colors == ret[1].value
     IN /\ DOMAIN colors = 0..(call.args[1] - 1)
        /\ \A i \in DOMAIN colors : colors[i] = TEAM_COLORS[i + 1]
        /\ \A i, j \in DOMAIN colors : i # j => colors[i] # colors[j]

\* twelve teams, some of them empty
C14_Witness ==
  /\ call.fn = "_assign_colors_optimally"
  /\ ret # << >>
  /\ call.args[1] = NumColors
  /\ DOMAIN call.args[2] # 0..(NumColors - 1)
  /\ ret[1].value[NumColors - 1] = TEAM_COLORS[NumColors]

\* the smallest distance from the centroid of team t to the centroids of the
\* teams before t that have the color; infinite when none of them has a centroid
SpreadOf(colors, cents, t, color) ==
  LET holders == { e \in 0..(t - 1) : colors[e] = color /\ e \in DOMAIN cents }
      ds == { haversine_distance(cents[t], cents[e]) : e \in holders }
  IN IF ds = {} THEN Inf ELSE CHOOSE d \in ds : \A x \in ds : ~Less(x, d)

\* C15: with more teams than colors, teams 0..11 get TEAM_COLORS[0..11] in
\* order and each later team that has addresses, in increasing index order, gets
\* the color that maximizes the minimum distance from its centroid to the
\* centroids of the teams already given that color, the first such color in
\* palette order.
C15_SpreadColors ==
  (/\ call.fn = "_assign_colors_optimally"
   /\ ret # << >>
   /\ call.args[1] > NumColors) =>
     LET colors == ret[1].value
         cents == call.args[2]
     IN /\ DOMAIN colors = 0..(call.args[1] - 1)
        /\ \A i \in 0..(NumColors - 1) : colors[i] = TEAM_COLORS[i + 1]
        /\ \A t \in NumColors..(call.args[1] - 1) :
             t \in DOMAIN cents =>
               \E c \in 1..NumColors :
                 /\ colors[t] = TEAM_COLORS[c]
                 /\ \A x \in 1..NumColors :
                      ~Less(SpreadOf(colors, cents, t, TEAM_COLORS[c]),
                            SpreadOf(colors, cents, t, TEAM_COLORS[x]))
                 /\ \A x \in 1..(c - 1) :
                      Less(SpreadOf(colors, cents, t, TEAM_COLORS[x]),
                           SpreadOf(colors, cents, t, TEAM_COLORS[c]))

\* team 13 has a finite best spread that two colors attain, and gets the first
\* of them, which is not the color of team 12
C15_Witness ==
  /\ call.fn = "_assign_colors_optimally"
  /\ ret # << >>
  /\ call.args[1] = NumColors + 2
  /\ { NumColors, NumColors + 1 } \subseteq DOMAIN call.args[2]
  /\ ret[1].value[NumColors + 1] # ret[1].value[NumColors]
  /\ LET colors == ret[1].value
         cents == call.args[2]
         best == SpreadOf(colors, cents, NumColors + 1, colors[NumColors + 1])
     IN /\ best # Inf
        /\ Cardinality({ c \in 1..NumColors :
                           SpreadOf(colors, cents, NumColors + 1, TEAM_COLORS[c]) = best }) >= 2

\* C16: every team of the result has a color of the palette, and
\* global_warnings holds exactly one color warning when num_teams > 12 and none
\* when num_teams <= 12.
C16_ColorShortage ==
  pc = "returned" =>
     LET shortage == { i \in DOMAIN result[1].global_warnings :
                         result[1].global_warnings[i].kind = "colors" }
     IN /\ req.num_teams >= 1
        /\ \A i \in 1..req.num_teams : result[1].teams[i].color \in Range(TEAM_COLORS)
        /\ Cardinality(shortage) = IF req.num_teams > NumColors THEN 1 ELSE 0

\* fourteen teams, the last of them empty, and one warning
C16_Witness ==
  /\ pc = "returned"
  /\ req.num_teams = NumColors + 2
  /\ result[1].teams[req.num_teams].addresses = << >>
  /\ result[1].teams[req.num_teams].color \in Range(TEAM_COLORS)
  /\ Len(result[1].global_warnings) = 1

\* twelve teams and no warning
C16_WitnessNoShortage ==
  /\ pc = "returned"
  /\ req.num_teams = NumColors
  /\ result[1].global_warnings = << >>

\* the input positions whose normalized address is not in the cache file
Uncached ==
  { i \in DOMAIN call.args[1] :
      normalize_address(call.args[1][i]) \notin DOMAIN load_cache(call.args[2]) }

\* the coordinate of input address i: the cached one, else the one Nominatim gives
CoordinateOf(i) ==
  LET normalized == normalize_address(call.args[1][i])
      dict == load_cache(call.args[2])
  IN IF normalized \in DOMAIN dict
     THEN Coordinate(dict[normalized].lat)
     ELSE Coordinate(Location(call.args[1][i]).latitude)

\* C17: when geocode_addresses returns, the list has one coordinate per input
\* address and the i-th coordinate is that of the i-th input address, for every
\* mix of cached and uncached addresses.
C17_ResultOrder ==
  (call.fn = "geocode_addresses" /\ pc = "returned") =>
     /\ Len(ret[1].value) = Len(call.args[1])
     /\ \A i \in DOMAIN call.args[1] : ret[1].value[i] = CoordinateOf(i)

\* the events of some kinds, in order
EventsOf(kinds) == SelectSeq(events, LAMBDA e : e.kind \in kinds)

\* the input positions whose lookup failed, and those whose lookup succeeded
FailedLookups == { e.arg : e \in Range(EventsOf({ "none", "raise" })) }
SucceededLookups == { e.arg : e \in Range(EventsOf({ "location" })) }

\* the uncached input positions in increasing order
RECURSIVE Ascending(_)
Ascending(set) ==
  IF set = {} THEN << >>
  ELSE LET least == CHOOSE x \in set : \A y \in set : x <= y
       IN << least >> \o Ascending(set \ { least })

\* C18 as stated: a lookup that finds nothing or raises does not stop the remaining
\* lookups; every uncached address is attempted exactly once; the cache file is
\* then written with every lookup that succeeded in this run and the prior
\* entries; only after that the process exits with code 1, and it does so if and
\* only if at least one lookup failed.
C18_FailuresCollected ==
  call.fn = "geocode_addresses" =>
     LET requests == [i \in DOMAIN EventsOf({ "request" }) |-> EventsOf({ "request" })[i].arg]
         looked_up == pc \in { "geo_save", "geo_report", "exited", "returned" }
         saved == pc \in { "geo_report", "exited", "returned" }
         prior == load_cache(call.args[2])
     IN /\ requests = SubSeq(Ascending(Uncached), 1, Len(requests))
        /\ looked_up => requests = Ascending(Uncached)
        /\ saved =>
             /\ EventsOf({ "request", "save" }) =
                  EventsOf({ "request" }) \o << Message("save", 0) >>
             /\ cache_file.state = "json"
             /\ \A i \in SucceededLookups :
                  /\ normalize_address(call.args[1][i]) \in DOMAIN cache_file.dict
                  /\ cache_file.dict[normalize_address(call.args[1][i])] =
                       CacheEntry(Location(call.args[1][i]).latitude,
                                  Location(call.args[1][i]).address)
             /\ \A k \in DOMAIN prior :
                  k \in DOMAIN cache_file.dict /\ cache_file.dict[k] = prior[k]
        /\ ~saved => cache_file = call.args[2] /\ exit_code = -1
        /\ pc \in { "exited", "returned" } =>
             /\ (pc = "exited") = (FailedLookups # {})
             /\ exit_code = IF FailedLookups # {} THEN 1 ELSE -1
             /\ EventsOf({ "exit" }) =
                  IF FailedLookups # {} THEN << Message("exit", 1) >> ELSE << >>
             /\ pc = "exited" => events[Len(events)].kind = "exit"

\* the write of the cache file failed and was answered with a warning
SaveFailed == Message("save_failed", 0) \in Range(console)

\* C18: a lookup that finds nothing or raises does not stop the remaining
\* lookups; every uncached address is attempted exactly once; the cache is then
\* saved once: the file holds every lookup that succeeded in this run and the
\* prior entries, unless the write fails, which prints a warning and leaves the
\* file as it was or, emptied by open(), without content that json can parse;
\* only after that the process exits with code 1, and it does so if and only if
\* at least one lookup failed.
C18_SaveAttempted ==
  call.fn = "geocode_addresses" =>
     LET requests == [i \in DOMAIN EventsOf({ "request" }) |-> EventsOf({ "request" })[i].arg]
         looked_up == pc \in { "geo_save", "geo_report", "exited", "returned" }
         saved == pc \in { "geo_report", "exited", "returned" }
         prior == load_cache(call.args[2])
     IN /\ requests = SubSeq(Ascending(Uncached), 1, Len(requests))
        /\ looked_up => requests = Ascending(Uncached)
        /\ saved =>
             /\ EventsOf({ "request", "save" }) =
                  EventsOf({ "request" }) \o << Message("save", 0) >>
             /\ IF SaveFailed
                THEN cache_file \in { call.args[2], CacheFile("corrupted", EmptyDict) }
                ELSE /\ cache_file.state = "json"
                     /\ \A i \in SucceededLookups :
                          /\ normalize_address(call.args[1][i]) \in DOMAIN cache_file.dict
                          /\ cache_file.dict[normalize_address(call.args[1][i])] =
                               CacheEntry(Location(call.args[1][i]).latitude,
                                          Location(call.args[1][i]).address)
                     /\ \A k \in DOMAIN prior :
                          k \in DOMAIN cache_file.dict /\ cache_file.dict[k] = prior[k]
        /\ ~saved => cache_file = call.args[2] /\ exit_code = -1 /\ ~SaveFailed
        /\ pc \in { "exited", "returned" } =>
             /\ (pc = "exited") = (FailedLookups # {})
             /\ exit_code = IF FailedLookups # {} THEN 1 ELSE -1
             /\ EventsOf({ "exit" }) =
                  IF FailedLookups # {} THEN << Message("exit", 1) >> ELSE << >>
             /\ pc = "exited" => events[Len(events)].kind = "exit"

\* a failure, then a lookup that succeeded and is in the written file next to
\* an entry of an earlier run, then exit code 1
C18_Witness ==
  /\ call.fn = "geocode_addresses"
  /\ pc = "exited"
  /\ exit_code = 1
  /\ ~SaveFailed
  /\ \E i \in FailedLookups : \E j \in SucceededLookups :
       /\ i < j
       /\ normalize_address(call.args[1][j]) \in DOMAIN cache_file.dict
       /\ normalize_address(call.args[1][j]) \notin DOMAIN load_cache(call.args[2])
  /\ DOMAIN load_cache(call.args[2]) # {}

\* a failure and a lookup that succeeded, open() failed: exit code 1 and no
\* cache file
C18_WitnessNotWritten ==
  /\ call.fn = "geocode_addresses"
  /\ pc = "exited"
  /\ exit_code = 1
  /\ SaveFailed
  /\ FailedLookups # {}
  /\ SucceededLookups # {}
  /\ cache_file = CacheFile("missing", EmptyDict)

\* a failure and a lookup that succeeded, json.dump failed: exit code 1 and the
\* entries of the earlier run are lost
C18_WitnessCutOff ==
  /\ call.fn = "geocode_addresses"
  /\ pc = "exited"
  /\ exit_code = 1
  /\ SaveFailed
  /\ FailedLookups # {}
  /\ SucceededLookups # {}
  /\ DOMAIN load_cache(call.args[2]) # {}
  /\ cache_file = CacheFile("corrupted", EmptyDict)

\* C19: no request is made for an address found in the cache; with m uncached
\* addresses there are m requests and max(0, m - 1) sleeps of one second, one
\* between each two consecutive requests and none after the last, whether the
\* requests succeed, find nothing or raise.
C19_RateLimit ==
  call.fn = "geocode_addresses" =>
     LET trace == EventsOf({ "request", "sleep" })
         m == Cardinality(Uncached)
     IN /\ \A j \in DOMAIN trace :
             trace[j] = IF j % 2 = 1
                        THEN Message("request", Ascending(Uncached)[(j + 1) \div 2])
                        ELSE Message("sleep", 1)
        /\ pc \in { "geo_save", "geo_report", "exited", "returned" } =>
             /\ Len(EventsOf({ "request" })) = m
             /\ Len(EventsOf({ "sleep" })) = IF m = 0 THEN 0 ELSE m - 1
             /\ m > 0 => trace[Len(trace)].kind = "request"

\* one cached address and two uncached ones, one request raised and one found
\* nothing: two requests and one sleep
C19_Witness ==
  /\ call.fn = "geocode_addresses"
  /\ pc = "exited"
  /\ Cardinality(Uncached) = 2
  /\ Len(call.args[1]) = 3
  /\ Len(EventsOf({ "raise" })) = 1
  /\ Len(EventsOf({ "none" })) = 1
  /\ Len(EventsOf({ "sleep" })) = 1

\* the distance the search gives to moving address a to team t: to the centroid
\* of t, or 0 when t is empty
MoveDistance(ta, a, t) ==
  IF ta[t] = << >> THEN Zero ELSE haversine_distance(a.coordinate, Centroid(ta[t]))

\* C20: in every iteration of the repair loop the source is a team of maximal
\* size among the teams with more than max_trees addresses, the target is
\* another team with fewer than max_trees addresses, no other pair of an
\* address of the source and such a target is nearer than the chosen pair, and
\* exactly that address moves: the source loses it, the target gains it at its
\* end, every other team is unchanged.
C20_Step ==
  (pc = "loop" /\ iteration_count' = iteration_count + 1) =>
     LET ta == team_assignments
         targets(src) == { t \in DOMAIN ta : t # src /\ Len(ta[t]) < req.max_trees }
     IN \E src \in DOMAIN ta : \E tgt \in targets(src) : \E k \in DOMAIN ta[src] :
          /\ Len(ta[src]) > req.max_trees
          /\ \A i \in DOMAIN ta : Len(ta[i]) <= Len(ta[src])
          /\ \A j \in DOMAIN ta[src] : \A t \in targets(src) :
               ~Less(MoveDistance(ta, ta[src][j], t), MoveDistance(ta, ta[src][k], tgt))
          /\ DOMAIN team_assignments' = DOMAIN ta
          /\ team_assignments'[src] =
               SubSeq(ta[src], 1, k - 1) \o SubSeq(ta[src], k + 1, Len(ta[src]))
          /\ team_assignments'[tgt] = Append(ta[tgt], ta[src][k])
          /\ \A i \in DOMAIN ta \ { src, tgt } : team_assignments'[i] = ta[i]

C20_GreedyStep == [][C20_Step]_vars

\* after one step from teams of three, two and no addresses with max_trees 1:
\* the team of three gave one address to the empty team
C20_Witness ==
  /\ pc = "loop"
  /\ iteration_count = 1
  /\ req.max_trees = 1
  /\ \E a, b, c \in DOMAIN team_assignments :
       /\ Cardinality({ i \in DOMAIN labels : labels[i] = a }) = 3
       /\ Cardinality({ i \in DOMAIN labels : labels[i] = b }) = 2
       /\ Cardinality({ i \in DOMAIN labels : labels[i] = c }) = 0
       /\ Len(team_assignments[a]) = 2
       /\ Len(team_assignments[b]) = 2
       /\ Len(team_assignments[c]) = 1

\* the team that received an address in the step
Receiver ==
  CHOOSE t \in DOMAIN team_assignments :
    Len(team_assignments'[t]) = Len(team_assignments[t]) + 1

\* C21: in a repair iteration in which some team has no address (and
\* max_trees >= 1) the address is moved into a team without addresses, never
\* into a non-empty team, also when an address of the source lies at the
\* centroid of a non-empty candidate.
C21_Step ==
  (/\ pc = "loop"
   /\ iteration_count' = iteration_count + 1
   /\ req.max_trees >= 1
   /\ \E t \in DOMAIN team_assignments : team_assignments[t] = << >>) =>
     team_assignments[Receiver] = << >>

C21_EmptyFirst == [][C21_Step]_vars

\* the team that gave an address in the step
Giver ==
  CHOOSE t \in DOMAIN team_assignments :
    Len(team_assignments'[t]) = Len(team_assignments[t]) - 1

\* the addresses that are not in the team fit_predict put them in
Moved ==
  { a \in Range(req.addresses) :
      \E t \in DOMAIN team_assignments :
        t # labels[a.address_number] /\ a \in Range(team_assignments[t]) }

\* C22: during one run of _redistribute_addresses no address is moved more than
\* once, a team that has received an address never gives one up later, and a
\* team with at most max_trees addresses never has more than max_trees later.
\* Step by step: the team an address is taken from holds only addresses that
\* were never moved (so it never received one), and no team grows past
\* max_trees.
C22_Step ==
  (pc = "loop" /\ iteration_count' = iteration_count + 1) =>
     /\ \A k \in DOMAIN team_assignments[Giver] :
          labels[team_assignments[Giver][k].address_number] = Giver
     /\ Cardinality(Moved') = Cardinality(Moved) + 1
     /\ \A t \in DOMAIN team_assignments :
          Len(team_assignments[t]) <= req.max_trees =>
            Len(team_assignments'[t]) <= req.max_trees

C22_NoOscillation == [][C22_Step]_vars

\* two addresses were moved, each once, into two different teams
C22_Witness ==
  /\ pc = "colors"
  /\ iteration_count = 2
  /\ Cardinality(Moved) = 2
  /\ Cardinality({ t \in DOMAIN team_assignments :
                     \E a \in Moved : a \in Range(team_assignments[t]) }) = 2

\* the size of team t when _redistribute_addresses was entered
InitialSize(t) == Cardinality({ i \in DOMAIN labels : labels[i] = t })

\* sum over the teams of max(0, size - max_trees), at entry and now
InitialExcess ==
  SumRange([k \in 1..req.num_teams |->
              IF InitialSize(k - 1) > req.max_trees
              THEN InitialSize(k - 1) - req.max_trees ELSE 0], 1, req.num_teams)

Excess(ta) ==
  SumRange([k \in 1..Cardinality(DOMAIN ta) |->
              IF Len(ta[k - 1]) > req.max_trees
              THEN Len(ta[k - 1]) - req.max_trees ELSE 0], 1, Cardinality(DOMAIN ta))

\* the case C23 is about: two teams or more, one of them too large, and fewer
\* than max_iterations addresses too many
RepairNeeded ==
  /\ labels # << >>
  /\ req.num_teams >= 2
  /\ \E t \in 0..(req.num_teams - 1) : InitialSize(t) > req.max_trees
  /\ InitialExcess < max_iterations

\* C23: with two teams or more, one of them larger than max_trees, and a total
\* excess below 1000, _redistribute_addresses succeeds if and only if
\* N <= K * max_trees; with N > K * max_trees it fails, with the saturation
\* reason at entry if no team is below max_trees, and otherwise with the
\* no-valid-move reason, after at least one move, in the first iteration in
\* which no team other than the source is below max_trees.
C23_State ==
  RepairNeeded =>
     LET N == Len(req.addresses)
         capacity == req.num_teams * req.max_trees
     IN /\ Redistributed => N <= capacity
        /\ pc = "exited" =>
             /\ N > capacity
             /\ exit_code = 1
             /\ error \in { "all_at_capacity", "no_valid_move" }
             /\ (error = "all_at_capacity") =
                  (\A t \in 0..(req.num_teams - 1) : InitialSize(t) >= req.max_trees)
             /\ error = "all_at_capacity" => iteration_count = 0
             /\ error = "no_valid_move" =>
                  /\ iteration_count >= 1
                  /\ \A t \in DOMAIN team_assignments :
                       \/ Len(team_assignments[t]) >= req.max_trees
                       \/ \A u \in DOMAIN team_assignments :
                            Len(team_assignments[u]) <= Len(team_assignments[t])
        /\ pc = "loop" => iteration_count + Excess(team_assignments) = InitialExcess

\* a repair iteration moves an address as long as a team other than the source
\* is below max_trees, and fails in the first iteration in which none is
C23_Step ==
  (RepairNeeded /\ pc = "loop" /\ Excess(team_assignments) > 0) =>
     LET src == most_overloaded(team_assignments, req.max_trees)
         room == \E t \in DOMAIN team_assignments :
                   t # src /\ Len(team_assignments[t]) < req.max_trees
     IN IF room
        THEN pc' = "loop" /\ iteration_count' = iteration_count + 1
        ELSE pc' = "exited" /\ error' = "no_valid_move"

C23_CapacityDecides ==
  /\ []C23_State
  /\ [][C23_Step]_vars

\* one address was moved, then no team had room
C23_Witness ==
  /\ RepairNeeded
  /\ pc = "exited"
  /\ error = "no_valid_move"
  /\ iteration_count >= 1
  /\ Len(req.addresses) > req.num_teams * req.max_trees

\* the request fits and the repair succeeded
C23_WitnessSuccess ==
  /\ RepairNeeded
  /\ pc = "colors"
  /\ iteration_count >= 1
  /\ Len(req.addresses) = req.num_teams * req.max_trees

\* C24: each repair iteration decreases the total excess (sum over the teams of
\* max(0, size - max_trees)) by exactly 1, so the loop always ends, by success
\* or by failure, and on success the number of iterations is the total excess
\* at entry.
C24_Step ==
  (pc = "loop" /\ iteration_count' = iteration_count + 1) =>
     Excess(team_assignments') = Excess(team_assignments) - 1

C24_State ==
  /\ pc = "loop" => iteration_count + Excess(team_assignments) = InitialExcess
  /\ Redistributed => iteration_count = InitialExcess /\ Excess(team_assignments) = 0

C24_Terminates ==
  /\ [][C24_Step]_vars
  /\ []C24_State
  /\ (pc \in { "redistribute", "loop" }) ~> (pc \in { "colors", "exited" })

\* success after as many iterations as there were addresses too many
C24_Witness ==
  /\ pc = "colors"
  /\ labels # << >>
  /\ iteration_count = InitialExcess
  /\ iteration_count >= 2
  /\ Excess(team_assignments) = 0

\* ---------------------------------------------------------------- C25
\* the metrics of team i as the final loop computes them from a membership
MetricsOf(ta, i) ==
  [mst_distance_km |-> calculate_mst_distance(ta[i]).value,
   warnings |-> detect_outliers(ta[i], 16) \o mst_warning(calculate_mst_distance(ta[i]).value)]

\* colors and metrics come from the membership _redistribute_addresses returned
C25_FromRepaired ==
  /\ color_assignments # << >> =>
       /\ overloaded(team_assignments, req.max_trees) = {}
       /\ color_assignments =
            assign_colors_optimally(req.num_teams, team_centroids(team_assignments))
  /\ result # << >> =>
       \A i \in 1..req.num_teams :
         /\ result[1].teams[i].addresses = team_assignments[i - 1]
         /\ result[1].teams[i].mst_distance_km = MetricsOf(team_assignments, i - 1).mst_distance_km
         /\ result[1].teams[i].warnings = MetricsOf(team_assignments, i - 1).warnings
         /\ result[1].teams[i].color = color_assignments[i - 1]

\* C25: within one request the stages run in the order partition,
\* redistribution, per-team metrics (MST distance and outlier check of every
\* team), color assignment: no color is assigned before the metrics of all
\* teams are computed, and no metric or color comes from the membership before
\* redistribution.
C25_StageOrder ==
  /\ color_assignments # << >> => result # << >>
  /\ C25_FromRepaired

\* ---------------------------------------------------------------- C26
\* the teams that have addresses
NonEmpty == { e \in DOMAIN team_assignments : team_assignments[e] # << >> }

\* the color the greedy step gives team j when only the teams before j that
\* have addresses count as users of a color
ColorAmongNonEmpty(j) ==
  LET cents == [e \in NonEmpty |-> Centroid(team_assignments[e])]
      used == [c \in 1..NumColors |->
                 { e \in NonEmpty : e < j /\ result[1].teams[e + 1].color = TEAM_COLORS[c] }]
  IN TEAM_COLORS[ScanColors(cents, j, used, 1,
                            [color |-> 0, min_distance |-> [num |-> -1, den |-> 1, ulp |-> 0]]).color]

\* C26: a team without addresses after partition and redistribution is no
\* error: the result holds num_teams teams in index order, team i of them with
\* no addresses, MST distance 0, no warnings and the color
\* TEAM_COLORS[i mod P]; and an empty team of index >= P has no influence on
\* the color of a later team.
C26_EmptyTeams ==
  result # << >> /\ NonEmpty # DOMAIN team_assignments =>
    /\ Len(result[1].teams) = req.num_teams
    /\ result[1].num_teams = req.num_teams
    /\ \A i \in 0..(req.num_teams - 1) :
         /\ result[1].teams[i + 1].name = req.team_names[i + 1]
         /\ result[1].teams[i + 1].addresses = team_assignments[i]
         /\ i \notin NonEmpty =>
              /\ result[1].teams[i + 1].addresses = << >>
              /\ result[1].teams[i + 1].mst_distance_km = 0
              /\ result[1].teams[i + 1].warnings = << >>
              /\ result[1].teams[i + 1].color = TEAM_COLORS[(i % NumColors) + 1]
    /\ \A i \in (NumColors..(req.num_teams - 1)) \ NonEmpty :
         \A j \in NonEmpty :
           j > i => result[1].teams[j + 1].color = ColorAmongNonEmpty(j)

\* a result with an empty team of index >= P before a team that has addresses
C26_Witness ==
  /\ pc = "returned"
  /\ result # << >>
  /\ \E i \in (NumColors..(req.num_teams - 1)) \ NonEmpty :
       \E j \in NonEmpty : j > i

\* a result of fewer teams than colors with an empty team, after a repair
C26_WitnessFew ==
  /\ pc = "returned"
  /\ result # << >>
  /\ req.num_teams < NumColors
  /\ iteration_count >= 1
  /\ NonEmpty # DOMAIN team_assignments

\* ---------------------------------------------------------------- C27
\* some two addresses of the team are more than 16 km apart
FarPair(team) ==
  \E i \in 1..Len(team.addresses) : \E j \in (i + 1)..Len(team.addresses) :
    ExceedsKm(haversine_distance(team.addresses[i].coordinate,
                                 team.addresses[j].coordinate), 16)

\* the team's MST distance is above 80 km
LongTree(team) == ExceedsKm([num |-> team.mst_distance_km, den |-> 1], 80)

\* C27: the warnings of a team are the outlier warning if and only if two of
\* its addresses are more than 16 km apart, followed by the distance warning
\* if and only if its MST distance is strictly above 80 km; each is decided
\* without the other, so there are 0, 1 or 2 warnings.
C27_TeamWarnings ==
  result # << >> =>
    \A i \in 1..req.num_teams :
      LET team == result[1].teams[i]
      IN /\ team.warnings =
              (IF FarPair(team) THEN << Message("outliers", 10) >> ELSE << >>)
              \o (IF LongTree(team)
                  THEN << Message("mst_distance", team.mst_distance_km) >>
                  ELSE << >>)
         /\ Len(team.warnings) \in {0, 1, 2}

\* a team with the distance warning alone
C27_Witness ==
  /\ pc = "returned"
  /\ \E i \in 1..req.num_teams :
       /\ ~FarPair(result[1].teams[i])
       /\ result[1].teams[i].warnings =
            << Message("mst_distance", result[1].teams[i].mst_distance_km) >>

\* a team with both warnings
C27_WitnessBoth ==
  /\ pc = "returned"
  /\ \E i \in 1..req.num_teams : Len(result[1].teams[i].warnings) = 2

\* a team with the outlier warning alone
C27_WitnessOutlier ==
  /\ pc = "returned"
  /\ \E i \in 1..req.num_teams :
       result[1].teams[i].warnings = << Message("outliers", 10) >>

\* ---------------------------------------------------------------- C28
\* the addresses main builds from the geocoder's coordinates
GeocodedAddresses ==
  [i \in 1..Len(ret[1].value) |-> [address_number |-> i, coordinate |-> ret[1].value[i]]]

\* the numbers of the addresses more than 50 km from the centroid of all, when
\* there are more than two addresses
FarFromAll ==
  { i \in DOMAIN GeocodedAddresses :
      /\ Len(GeocodedAddresses) > 2
      /\ ExceedsKm(haversine_distance(GeocodedAddresses[i].coordinate,
                                      Centroid(GeocodedAddresses)), 50) }

\* main has ended after the geocoder returned
EndedAfterGeocoding == call.fn = "main" /\ ret # << >> /\ pc \in { "raised", "exited" }

\* C28 as stated: with more than two addresses, some of them more than 50 km
\* from the centroid of all, main warns about the outliers, puts each of them
\* in exactly one team, leaves them off the map and ends with exit code 0;
\* with two addresses or fewer no address is flagged.
C28_GlobalOutliers ==
  EndedAfterGeocoding =>
    /\ Len(GeocodedAddresses) <= 2 => FarFromAll = {}
    /\ IF FarFromAll # {}
       THEN /\ Message("global_outliers", Cardinality(FarFromAll)) \in Range(console)
            /\ exit_code = 0
            /\ result # << >>
            /\ \A i \in FarFromAll :
                 /\ Cardinality({ t \in 1..Len(result[1].teams) :
                                    \E a \in Range(result[1].teams[t].addresses) :
                                      a.address_number = i }) = 1
                 /\ Message("draw", i) \notin Range(events)
       ELSE \A m \in Range(console) : m.kind # "global_outliers"

\* ---------------------------------------------------------------- C29
\* the request passes the checks main makes before it geocodes
ChecksPass ==
  ~cli_checks(Len(req.addresses), req.num_teams, req.max_trees).raised

\* C29: when max_trees >= 1, validate_team_count and validate_capacity all
\* pass, _redistribute_addresses does not fail for a single team, for teams
\* all at capacity or for want of a valid move, whatever the partition was.
C29_ChecksSuffice ==
  ChecksPass => error \notin { "single_team", "all_at_capacity", "no_valid_move" }

\* a request that passes the checks, whose partition needed two moves
C29_Witness ==
  /\ ChecksPass
  /\ pc = "colors"
  /\ iteration_count >= 2
  /\ Excess(team_assignments) = 0

\* ---------------------------------------------------------------- C30
\* parse_addresses has returned the address strings
Parsed == events # << >> /\ events[1].kind = "parse_addresses"

\* the arguments fail one of the three checks
InvalidArgs ==
  \/ call.args[4] < 1
  \/ call.args[3] < 1
  \/ call.args[3] > Len(call.args[1])
  \/ 5 * Len(call.args[1]) >= 4 * call.args[3] * call.args[4]

\* the geocoder has read the cache, made a request or written the cache
GeocoderStarted ==
  \/ pc \in { "geo_loop", "geo_save", "geo_report" }
  \/ ret # << >>
  \/ cache_file # call.args[2]
  \/ \E e \in Range(events) : e.kind \in { "request", "save" }

\* nothing of the geocoder, the clusterer or the output has happened
NothingDone ==
  /\ ~GeocoderStarted
  /\ cache = << >> /\ coordinates = << >> /\ addresses_to_geocode = << >>
  /\ req = NoRequest /\ labels = << >> /\ team_assignments = << >> /\ result = << >>
  /\ \A e \in Range(events) : e.kind \notin { "draw", "export" }

C30_State ==
  /\ GeocoderStarted =>
       /\ Len(events) >= 2
       /\ events[1].kind = "parse_addresses"
       /\ events[2] = Message("checks", 0)
       /\ ~InvalidArgs
  /\ Parsed /\ InvalidArgs =>
       /\ pc \in { "cli_checks", "exited" }
       /\ NothingDone
       /\ pc = "exited" => exit_code = 1

\* C30: in main the max_trees check, validate_team_count and validate_capacity
\* come after the parsing of the csv file and before the geocoder is invoked;
\* when one of them fails the process exits with code 1 and there has been no
\* geocoding request, no read or write of the cache, no clustering and no
\* output file.
C30_ValidationFirst ==
  /\ []C30_State
  /\ (Parsed /\ InvalidArgs) ~> (pc = "exited" /\ exit_code = 1 /\ NothingDone)

\* a run stopped by validate_capacity alone
C30_Witness ==
  /\ call.fn = "main"
  /\ call.args[4] >= 1
  /\ call.args[3] >= 1
  /\ call.args[3] <= Len(call.args[1])
  /\ InvalidArgs
  /\ events = << Message("parse_addresses", Len(call.args[1])),
                 Message("checks", 1), Message("exit", 1) >>
  /\ exit_code = 1

============================================================================
